---- MODULE Spec2Model ----
(***************************************************************************)
(* A model of r0ld3x/redis-clone-go: one primary server "P", two replica   *)
(* servers "R1" and "R2" running the same code in the slave role, client   *)
(* connections on the primary and on replica R1.                           *)
(*                                                                         *)
(* Every goroutine of the program is a process of the model: the           *)
(* connection handler of each accepted connection (handleClientConnection) *)
(* and, on a replica, the goroutine that runs SendHandshake followed by    *)
(* handleMasterConnection.  A handler is cut into steps at the points      *)
(* where it takes a lock, touches the sync.Map or writes to a socket, so   *)
(* that the interleavings of two handlers are those of the goroutines.     *)
(*                                                                         *)
(* Replies are the bytes the code writes (Go strings are TLA+ strings).    *)
(* A command frame in flight is kept as its argument list next to the      *)
(* encoding that defines its length; the reading side of the codec is      *)
(* applied to arguments without CR or LF, which it returns as they are.    *)
(***************************************************************************)
EXTENDS Integers, Sequences, FiniteSets, TLC

\* ------------------------------------------------------------------ bounds
MaxCmds == 3        \* commands the client connections send in one behaviour
MaxTxCmds == 5      \* the same, where a transaction of two commands meets a writer
AtoiMax == 400      \* largest int: strconv.Atoi reads -AtoiMax-1..AtoiMax, + wraps around
MaxReadCmds == 4    \* commands of a behaviour in which a stream of three entries is read
MaxDropCmds == 2    \* commands of a behaviour in which the connections of the replicas break
MaxRecs == 2        \* records of a dump file
MaxFrames == 3      \* frames a replica is sent in a behaviour that starts after its handshake
MaxStrLen == 2      \* bytes of an argument of a frame that is decoded
MaxArgs == 2        \* arguments of a frame that is decoded
MaxLoadCmds == 2    \* commands a client sends to a primary that loaded a dump file

\* ------------------------------------------------------- processes, inputs
Primary == "P"
Replicas == {"R1", "R2"}
Servers == {Primary} \cup Replicas
Clients == {"c1", "c2"}          \* client connections accepted by the primary
ReplicaClients == {"d1"}         \* a client connection accepted by replica R1
Conns == Clients \cup Replicas \cup ReplicaClients
\* The server whose listener accepted connection c.  The connection a replica
\* opens to the primary carries the replica's name.
ServerOf(c) == IF c \in ReplicaClients THEN "R1" ELSE Primary
Keys == {"k", "s"}

Role(s) == IF s = Primary THEN "master" ELSE "slave"
IsMaster(s) == Role(s) = "master"
IsSlave(s) == Role(s) = "slave"

\* ------------------------------------------------------------------- codec
Range(f) == {f[i] : i \in DOMAIN f}

RECURSIVE EncodeElements(_)
EncodeElements(elements) ==
  IF elements = <<>> THEN ""
  ELSE "$" \o ToString(Len(Head(elements))) \o "\r\n" \o Head(elements) \o "\r\n"
           \o EncodeElements(Tail(elements))

EncodeArray(elements) ==
  "*" \o ToString(Len(elements)) \o "\r\n" \o EncodeElements(elements)

FormatSimpleString(s) == "+" \o s \o "\r\n"
FormatError(errMsg) == "-" \o errMsg \o "\r\n"
FormatInteger(value) == ":" \o ToString(value) \o "\r\n"
FormatBulkString(s) == "$" \o ToString(Len(s)) \o "\r\n" \o s \o "\r\n"
NullBulk == "$-1\r\n"

RECURSIVE Concat(_)
Concat(elements) ==
  IF elements = <<>> THEN "" ELSE Head(elements) \o Concat(Tail(elements))

\* WriteArray2: an array header followed by elements that are encoded already.
FormatArray2(elements) ==
  "*" \o ToString(Len(elements)) \o "\r\n" \o Concat(elements)

\* strconv.Atoi and strconv.Itoa on the decimal strings of the model.
Itoa(n) == ToString(n)
AtoiTable == [n \in (0 - AtoiMax - 1)..AtoiMax |-> ToString(n)]
AtoiOk(s) == \E n \in DOMAIN AtoiTable : AtoiTable[n] = s
Atoi(s) == IF AtoiOk(s) THEN CHOOSE n \in DOMAIN AtoiTable : AtoiTable[n] = s ELSE 0

\* The sum of two ints as Go computes it: in two's complement, without a check.
WrapInt(n) == ((n + AtoiMax + 1) % (2 * AtoiMax + 2)) - AtoiMax - 1

\* strings.ToUpper on the words of the model.
ToUpper(s) ==
  CASE s = "px" -> "PX"
    [] s = "getack" -> "GETACK"
    [] s = "ack" -> "ACK"
    [] s = "listening-port" -> "LISTENING-PORT"
    [] s = "capa" -> "CAPA"
    [] s = "set" -> "SET"
    [] OTHER -> s

\* ---------------------------------------------------------------- keyspace
NoVal == [kind |-> "none"]
KeyValue(val, px, t) == [kind |-> "kv", Val |-> val, Px |-> px, T |-> t]
EmptyDB == [k \in Keys |-> NoVal]

\* time.Now().After(T + Px ms)
Expired(v, t) == v.Px # -1 /\ t > v.T + v.Px

\* A store that lets the key keep the expiry it had.
SetKeyKeepsPx(db, key, val, px, t) ==
  [db EXCEPT ![key] = KeyValue(val, IF db[key].kind = "kv" THEN db[key].Px ELSE px, t)]

SetKey(db, key, val, px, t) == [db EXCEPT ![key] = KeyValue(val, px, t)]

GetKey(db, key, t) ==
  LET v == db[key] IN
  IF v.kind = "none" THEN [ok |-> FALSE, val |-> ""]
  ELSE IF v.kind # "kv" THEN [ok |-> FALSE, val |-> ""]
  ELSE IF Expired(v, t) THEN [ok |-> FALSE, val |-> ""]
  ELSE [ok |-> TRUE, val |-> v.Val]

\* --------------------------------------------- protocol, byte by byte
\* A string is a sequence of bytes here, a byte a string of one character.
Digits == <<"0", "1", "2", "3", "4", "5", "6", "7", "8", "9">>

\* fmt.Sprintf("%d", n) for the lengths of the model.
ItoaBytes(n) == IF n < 10 THEN <<Digits[n + 1]>> ELSE <<Digits[(n \div 10) + 1], Digits[(n % 10) + 1]>>

\* strconv.Atoi on the bytes behind the prefix of a header line.
AtoiBytes(bs) ==
  IF Len(bs) = 1 /\ \E d \in DOMAIN Digits : Digits[d] = bs[1]
    THEN [ok |-> TRUE, n |-> (CHOOSE d \in DOMAIN Digits : Digits[d] = bs[1]) - 1]
    ELSE [ok |-> FALSE, n |-> 0]

RECURSIVE EncodeElementsBytes(_)
EncodeElementsBytes(elements) ==
  IF elements = <<>> THEN <<>>
  ELSE <<"$">> \o ItoaBytes(Len(Head(elements))) \o <<"\r", "\n">> \o Head(elements)
         \o <<"\r", "\n">> \o EncodeElementsBytes(Tail(elements))

\* EncodeArray, the bytes it returns.
EncodeArrayBytes(elements) ==
  <<"*">> \o ItoaBytes(Len(elements)) \o <<"\r", "\n">> \o EncodeElementsBytes(elements)

\* bufio.ScanLines on the buffer of the scanner: the position of the first
\* newline (0: none), the line in front of it without one trailing CR.
NewlineAt(buf) ==
  IF \E i \in DOMAIN buf : buf[i] = "\n"
    THEN CHOOSE i \in DOMAIN buf : buf[i] = "\n" /\ \A j \in 1..(i - 1) : buf[j] # "\n"
    ELSE 0

dropCR(line) ==
  IF line # <<>> /\ line[Len(line)] = "\r" THEN SubSeq(line, 1, Len(line) - 1) ELSE line

ScanText(buf) == dropCR(SubSeq(buf, 1, NewlineAt(buf) - 1))
ScanRest(buf) == SubSeq(buf, NewlineAt(buf) + 1, Len(buf))

\* The bytes of some frames, one behind the other.
RECURSIVE EncodeFrames(_)
EncodeFrames(frames) ==
  IF frames = <<>> THEN <<>>
  ELSE EncodeArrayBytes(Head(frames)) \o EncodeFrames(Tail(frames))

\* No connection is read byte by byte.
NoCodec == [pc |-> "off", input |-> <<>>, behind |-> <<>>, wire |-> <<>>, buf |-> <<>>,
            count |-> 0, length |-> 0, args |-> <<>>]

\* ------------------------------------------------------ rdb (parser.go)
\* A dump file as ParseRDB reads it: the nine bytes of the header, then the
\* records, each an opcode and what follows it.  exp is the expiry of an
\* 0xFD record (unix seconds) or of an 0xFC record (unix milliseconds), type
\* the byte after the expiry; cut says that the file ends behind the opcode.
Rec(op, exp, type, key, val, cut) ==
  [op |-> op, exp |-> exp, type |-> type, key |-> key, val |-> val, cut |-> cut]
RdbFile(magic, recs) == [magic |-> magic, recs |-> recs]
NoFile == RdbFile("", <<>>)

SecMs == 1000       \* time.Unix(secs, 0) in milliseconds

\* time.Unix(secs, 0) and time.UnixMilli(expiry) on the clock of the model.
ExpireTime(rec) == IF rec.op = "FD" THEN rec.exp * SecMs ELSE rec.exp

\* The loop of ParseRDB over the records that are left, at time t.
RECURSIVE ParseRecords(_, _, _)
ParseRecords(recs, db, t) ==
  IF recs = <<>> THEN [db |-> db, err |-> FALSE]
  ELSE LET rec == Head(recs) IN
    CASE rec.op \in {"FA", "FE", "FB"} -> ParseRecords(Tail(recs), db, t)
      [] rec.op = "00" ->
           ParseRecords(Tail(recs), SetKey(db, rec.key, rec.val, -1, t), t)
      [] rec.op \in {"FD", "FC"} ->
           IF rec.cut THEN [db |-> db, err |-> TRUE]
           ELSE IF rec.type # "00" THEN [db |-> db, err |-> TRUE]
           ELSE IF ~(t > ExpireTime(rec))
             THEN ParseRecords(Tail(recs), SetKey(db, rec.key, rec.val, rec.exp, t), t)
           ELSE ParseRecords(Tail(recs), db, t)
      [] rec.op = "FF" -> [db |-> db, err |-> FALSE]
      [] OTHER -> [db |-> db, err |-> TRUE]

ParseRDB(file, db, t) ==
  IF file.magic # "REDIS" THEN [db |-> db, err |-> TRUE]
  ELSE ParseRecords(file.recs, db, t)

\* Increment when nothing happens between its DB.Load and its DB.Store; the
\* handlers take the two in two steps (IncrHandler, IncrStore).
Increment(db, key, by, t) ==
  LET v == db[key] IN
  IF v.kind = "none"
    THEN [ok |-> TRUE, val |-> Itoa(by), db |-> [db EXCEPT ![key] = KeyValue(Itoa(by), -1, t)]]
  ELSE IF v.kind # "kv" THEN [ok |-> FALSE, val |-> "", db |-> db]
  ELSE IF Expired(v, t)
    THEN [ok |-> TRUE, val |-> Itoa(by), db |-> [db EXCEPT ![key] = KeyValue(Itoa(by), -1, t)]]
  ELSE IF ~AtoiOk(v.Val) THEN [ok |-> FALSE, val |-> "", db |-> db]
  ELSE LET newVal == Itoa(WrapInt(Atoi(v.Val) + by)) IN
       [ok |-> TRUE, val |-> newVal,
        db |-> [db EXCEPT ![key] = [v EXCEPT !.Val = newVal, !.T = t]]]

GetType(db, key, t) ==
  LET v == db[key] IN
  IF v.kind = "none" THEN [ok |-> FALSE, val |-> ""]
  ELSE IF Expired(v, t) THEN [ok |-> FALSE, val |-> ""]
  ELSE IF v.kind = "stream" THEN [ok |-> TRUE, val |-> "stream"]
  ELSE IF AtoiOk(v.Val) THEN [ok |-> TRUE, val |-> "integer"]
  ELSE [ok |-> TRUE, val |-> "string"]

\* ----------------------------------------------------------------- streams
MaxIdNum == 3       \* largest ms or seq part an ID string of the model has

FormatID(ms, seq) == ToString(ms) \o "-" \o ToString(seq)
IDTable == [p \in (0..MaxIdNum) \X (0..MaxIdNum) |-> FormatID(p[1], p[2])]
\* strings.Split(id, "-") gives two numeric parts
IsPairID(id) == \E p \in DOMAIN IDTable : IDTable[p] = id
SplitID(id) == CHOOSE p \in DOMAIN IDTable : IDTable[p] = id
MsStarTable == [ms \in 0..MaxIdNum |-> ToString(ms) \o "-*"]
\* strings.HasSuffix(id, "-*") with a numeric timestamp part
IsMsStar(id) == \E ms \in DOMAIN MsStarTable : MsStarTable[ms] = id
MsOfMsStar(id) == CHOOSE ms \in DOMAIN MsStarTable : MsStarTable[ms] = id
\* strings.HasSuffix(id, "-*") with a timestamp part strconv.ParseInt rejects
BadStarIDs == {"x-*"}

\* A *Stream is an object of the heap.  The value stored under a key names
\* the object by ptr, the connection whose handler allocated it, and carries
\* its content as long as the object is the one the map holds.
EmptyStream == [Entries |-> <<>>, LastID |-> "0-0", LastSeqNum |-> 0]
StreamObj(v) == [Entries |-> v.Entries, LastID |-> v.LastID, LastSeqNum |-> v.LastSeqNum]
StreamData(stream, ptr, px, t) ==
  [kind |-> "stream", ptr |-> ptr, Entries |-> stream.Entries, LastID |-> stream.LastID,
   LastSeqNum |-> stream.LastSeqNum, Px |-> px, T |-> t]

compareStreamIDs(id1, id2) ==
  IF ~IsPairID(id1) \/ ~IsPairID(id2) THEN 0
  ELSE LET a == SplitID(id1)
           b == SplitID(id2) IN
       IF a[1] # b[1] THEN (IF a[1] > b[1] THEN 1 ELSE -1)
       ELSE IF a[2] > b[2] THEN 1
       ELSE IF a[2] < b[2] THEN -1
       ELSE 0

ErrTopItem == "ERR The ID specified in XADD is equal or smaller than the target stream top item"
ErrZeroID == "ERR The ID specified in XADD must be greater than 0-0"

isValidStreamID(stream, id) ==
  IF id = "0-0" /\ Len(stream.Entries) = 0 THEN [ok |-> FALSE, err |-> ErrZeroID]
  ELSE IF Len(stream.Entries) = 0 THEN [ok |-> TRUE, err |-> ""]
  ELSE IF compareStreamIDs(id, stream.LastID) > 0 THEN [ok |-> TRUE, err |-> ""]
  ELSE [ok |-> FALSE, err |-> ErrTopItem]

\* An ID generator that gives every <ms>-* request the sequence number 0.
generateStreamIDSeqZero(stream, requestedID, currentMs) ==
  IF IsMsStar(requestedID)
    THEN [ok |-> TRUE, id |-> FormatID(MsOfMsStar(requestedID), 0), err |-> ""]
    ELSE [ok |-> FALSE, id |-> "", err |-> ErrTopItem]

generateStreamID(stream, requestedID, currentMs) ==
  LET last == SplitID(stream.LastID)
      lastMs == last[1]
      lastSeq == last[2] IN
  IF requestedID = "*" THEN
    IF stream.LastSeqNum = 0 THEN [ok |-> TRUE, id |-> FormatID(currentMs, 0), err |-> ""]
    ELSE IF currentMs > lastMs THEN [ok |-> TRUE, id |-> FormatID(currentMs, 0), err |-> ""]
    ELSE IF currentMs = lastMs THEN [ok |-> TRUE, id |-> FormatID(currentMs, lastSeq + 1), err |-> ""]
    ELSE [ok |-> TRUE, id |-> FormatID(lastMs, lastSeq + 1), err |-> ""]
  ELSE IF IsMsStar(requestedID) THEN
    LET requestedMs == MsOfMsStar(requestedID) IN
    IF requestedMs = 0 /\ Len(stream.Entries) = 0 THEN [ok |-> TRUE, id |-> "0-1", err |-> ""]
    ELSE IF requestedMs = 0 /\ lastMs = 0
      THEN [ok |-> TRUE, id |-> FormatID(0, lastSeq + 1), err |-> ""]
    ELSE IF requestedMs = 0 /\ lastMs > 0 THEN [ok |-> FALSE, id |-> "", err |-> ErrTopItem]
    ELSE IF Len(stream.Entries) = 0 THEN [ok |-> TRUE, id |-> FormatID(requestedMs, 0), err |-> ""]
    ELSE IF requestedMs > lastMs THEN [ok |-> TRUE, id |-> FormatID(requestedMs, 0), err |-> ""]
    ELSE IF requestedMs = lastMs
      THEN [ok |-> TRUE, id |-> FormatID(requestedMs, lastSeq + 1), err |-> ""]
    ELSE [ok |-> FALSE, id |-> "", err |-> ErrTopItem]
  ELSE IF requestedID \in BadStarIDs
    THEN [ok |-> FALSE, id |-> "", err |-> "ERR Invalid stream ID format"]
  ELSE LET v == isValidStreamID(stream, requestedID) IN
       IF v.ok THEN [ok |-> TRUE, id |-> requestedID, err |-> ""]
       ELSE [ok |-> FALSE, id |-> "", err |-> v.err]

\* The map StreamAdd builds from the field arguments: a later value of a
\* name replaces an earlier one.
RECURSIVE FieldMap(_)
FieldMap(fields) ==
  IF Len(fields) < 2 THEN << >>
  ELSE LET rest == FieldMap(SubSeq(fields, 1, Len(fields) - 2))
           name == fields[Len(fields) - 1]
           val == fields[Len(fields)] IN
       [n \in DOMAIN rest \cup {name} |-> IF n = name THEN val ELSE rest[n]]

\* StreamAdd under stream.mutex: the ID is generated or validated and the
\* entry is appended to the object.
StreamAdd(stream, id, fields, t) ==
  LET g == generateStreamID(stream, id, t) IN
  IF ~g.ok THEN [ok |-> FALSE, val |-> g.err, stream |-> stream]
  ELSE
    LET entry == [ID |-> g.id, Fields |-> FieldMap(fields), Time |-> t]
        seq == IF IsPairID(g.id) THEN SplitID(g.id)[2] ELSE stream.LastSeqNum
    IN [ok |-> TRUE, val |-> g.id,
        stream |-> [Entries |-> Append(stream.Entries, entry), LastID |-> g.id,
                    LastSeqNum |-> seq]]

\* ------------------------------------------------------------------- state
VARIABLES
  DB,                 \* [server -> keyspace]: database.DB of each process
  ReplicationOffset,  \* [server -> Int]: Server.ReplicationOffset
  ReplicaConn,        \* [server -> Seq(conn)]: Server.ReplicaConn
  ReplicaOffsets,     \* [server -> map conn -> Int]: Server.ReplicaOffsets
  AckReceived,        \* [server -> Seq(conn)]: the buffered channel Server.AckReceived
  transactions,       \* map conn -> Transaction: Manager.transactions
  h,                  \* [conn -> locals of the connection's handler goroutine]
  out,                \* [conn -> what the server wrote to the connection, unread by the peer]
  up,                 \* [replica -> commands the replica wrote to MasterConn, unread by the primary]
  rpc,                \* [replica -> position of its SendHandshake/handleMasterConnection goroutine]
  closed,             \* connections closed by their peer
  now,                \* wall clock, in milliseconds
  ncmd,               \* commands sent by client connections so far
  boot,               \* the primary's main before net.Listen: the file of ParseRDB, its result
  codec,              \* a connection read byte by byte: the socket, the bufio.Scanner, ReadArrayArguments
  sent,               \* history: the frames the primary counted into ReplicationOffset, in order
  wlog,               \* history: [conn -> frames ReplicateCommand wrote to the connection, in order]
  rlog,               \* history: [replica -> frames its ingestion loop processed, in order]
  ackObs,             \* history: [replica -> its last REPLCONF ACK]
  obs                 \* history: [conn -> the last command dispatched on the connection]

srvVars == <<DB, ReplicationOffset, ReplicaConn, ReplicaOffsets, AckReceived>>
replicaVars == <<up, rpc, rlog, ackObs>>
envVars == <<closed, now, ncmd, boot, codec>>
vars == <<DB, ReplicationOffset, ReplicaConn, ReplicaOffsets, AckReceived, transactions,
          h, out, up, rpc, closed, now, ncmd, boot, codec, sent, wlog, rlog, ackObs, obs>>

\* Go maps: a function whose domain is the set of keys present.
EmptyMap == [x \in {} |-> 0]
MapPut(m, k, v) == [x \in DOMAIN m \cup {k} |-> IF x = k THEN v ELSE m[x]]
MapDelete(m, k) == [x \in DOMAIN m \ {k} |-> m[x]]
MapGet(m, k) == IF k \in DOMAIN m THEN m[k] ELSE 0

RemoveFirst(seq, x) ==
  IF x \notin Range(seq) THEN seq
  ELSE LET i == CHOOSE j \in DOMAIN seq : seq[j] = x /\ \A l \in 1..(j - 1) : seq[l] # x
       IN SubSeq(seq, 1, i - 1) \o SubSeq(seq, i + 1, Len(seq))

AckCap == 100
ReplID == "0123456789abcdefghijklmnopqrstuvwxyzABCD"
RdbLen == 88
GetAckFrame == <<"REPLCONF", "GETACK", "*">>

Bytes(s) == [t |-> "bytes", s |-> s]
Frame(args) == [t |-> "frame", args |-> args]
Rdb == [t |-> "rdb", len |-> RdbLen]

\* conn.Write: a replica link queues what it is sent until the replica reads
\* it; a client reads every reply at once, so only the last one is kept.
ConnWrite(o, conn, msg) ==
  IF conn \in Replicas THEN [o EXCEPT ![conn] = Append(@, msg)]
  ELSE [o EXCEPT ![conn] = <<msg>>]

H0 == [pc |-> "idle", frame |-> <<>>, snap |-> <<>>, i |-> 0, mode |-> "direct",
       queue |-> <<>>, results |-> <<>>, count |-> 0, acks |-> 0, masterOffset |-> 0,
       ptr |-> "", stream |-> EmptyStream,
       streamKeys |-> <<>>, startIDs |-> <<>>, blockTimeout |-> -1, startTime |-> 0,
       found |-> EmptyMap, data |-> NoVal]
Obs0 == [cmd |-> <<>>, n |-> 0, regs |-> {}, caught |-> -1, wreply |-> -1,
         wregs |-> -1, wcaught |-> -1, queued |-> <<>>]

\* ------------------------------------------------------- Server (server.go)
AddReplica(s, conn) ==
  /\ ReplicaConn' = [ReplicaConn EXCEPT ![s] = Append(@, conn)]
  /\ ReplicaOffsets' = [ReplicaOffsets EXCEPT ![s] = MapPut(@, conn, 0)]

\* A RemoveReplica that leaves the entry of ReplicaOffsets.
RemoveReplicaKeepsOffset(s, conn) ==
  /\ ReplicaConn' = [ReplicaConn EXCEPT ![s] = RemoveFirst(@, conn)]
  /\ ReplicaOffsets' = ReplicaOffsets

RemoveReplica(s, conn) ==
  /\ ReplicaConn' = [ReplicaConn EXCEPT ![s] = RemoveFirst(@, conn)]
  /\ ReplicaOffsets' = [ReplicaOffsets EXCEPT ![s] = MapDelete(@, conn)]

\* A primary that does not count the bytes of a frame.
UpdateReplicationOffsetForgets(offset, bytes) == offset

UpdateReplicationOffset(offset, bytes) == offset + bytes

UpdateReplicaOffset(offsets, conn, offset) == MapPut(offsets, conn, offset)

GetReplicaOffset(offsets, conn) == MapGet(offsets, conn)

\* ------------------------------------------- transaction.Manager
IsInTransaction(tx, conn) == conn \in DOMAIN tx /\ tx[conn].InTransaction
StartTransaction(tx, conn) == MapPut(tx, conn, [Commands |-> <<>>, InTransaction |-> TRUE])
\* A manager that puts a command in front of the queue.
QueueCommandInFront(tx, conn, command, args) ==
  IF conn \in DOMAIN tx
    THEN [tx EXCEPT ![conn].Commands = <<[Command |-> command, Args |-> args]>> \o @]
    ELSE tx

QueueCommand(tx, conn, command, args) ==
  IF conn \in DOMAIN tx
    THEN [tx EXCEPT ![conn].Commands = Append(@, [Command |-> command, Args |-> args])]
    ELSE tx
GetQueuedCommands(tx, conn) == IF conn \in DOMAIN tx THEN tx[conn].Commands ELSE <<>>
EndTransaction(tx, conn) == MapDelete(tx, conn)
\* A manager whose discard leaves the transaction in place.
DiscardTransactionKeeps(tx, conn) == tx

DiscardTransaction(tx, conn) == MapDelete(tx, conn)
CleanupConnection(tx, conn) == MapDelete(tx, conn)

\* ---------------------------------------------- stream reads (stream.go)
\* A range that leaves out the entry whose ID is the end of the range.
StreamRangeOpenEnd(db, key, start, end, t) ==
  LET v == db[key] IN
  IF v.kind = "none" THEN [ok |-> TRUE, entries |-> <<>>]
  ELSE IF v.kind # "stream" THEN [ok |-> FALSE, entries |-> <<>>]
  ELSE IF Expired(v, t) THEN [ok |-> TRUE, entries |-> <<>>]
  ELSE [ok |-> TRUE,
        entries |-> SelectSeq(v.Entries, LAMBDA e :
                      /\ (start = "-" \/ compareStreamIDs(e.ID, start) >= 0)
                      /\ (end = "+" \/ compareStreamIDs(e.ID, end) < 0))]

StreamRange(db, key, start, end, t) ==
  LET v == db[key] IN
  IF v.kind = "none" THEN [ok |-> TRUE, entries |-> <<>>]
  ELSE IF v.kind # "stream" THEN [ok |-> FALSE, entries |-> <<>>]
  ELSE IF Expired(v, t) THEN [ok |-> TRUE, entries |-> <<>>]
  ELSE [ok |-> TRUE,
        entries |-> SelectSeq(v.Entries, LAMBDA e :
                      /\ (start = "-" \/ compareStreamIDs(e.ID, start) >= 0)
                      /\ (end = "+" \/ compareStreamIDs(e.ID, end) <= 0))]

\* A read that returns the entry whose ID is the start ID as well.
StreamReadFromInclusive(db, key, startID, t) ==
  LET v == db[key] IN
  IF v.kind = "none" THEN [ok |-> TRUE, entries |-> <<>>]
  ELSE IF v.kind # "stream" THEN [ok |-> FALSE, entries |-> <<>>]
  ELSE IF Expired(v, t) THEN [ok |-> TRUE, entries |-> <<>>]
  ELSE IF startID = "$" THEN [ok |-> TRUE, entries |-> <<>>]
  ELSE [ok |-> TRUE,
        entries |-> SelectSeq(v.Entries, LAMBDA e : compareStreamIDs(e.ID, startID) >= 0)]

StreamReadFrom(db, key, startID, t) ==
  LET v == db[key] IN
  IF v.kind = "none" THEN [ok |-> TRUE, entries |-> <<>>]
  ELSE IF v.kind # "stream" THEN [ok |-> FALSE, entries |-> <<>>]
  ELSE IF Expired(v, t) THEN [ok |-> TRUE, entries |-> <<>>]
  ELSE IF startID = "$" THEN [ok |-> TRUE, entries |-> <<>>]
  ELSE [ok |-> TRUE,
        entries |-> SelectSeq(v.Entries, LAMBDA e : compareStreamIDs(e.ID, startID) > 0)]

GetStreamLastID(db, key, t) ==
  LET v == db[key] IN
  IF v.kind # "stream" THEN "0-0"
  ELSE IF Expired(v, t) THEN "0-0"
  ELSE v.LastID

\* The fields of an entry as the range loop over the Go map yields them; the
\* entries of the model have one field, so the order of the loop is fixed.
RECURSIVE FormatFields(_)
FormatFields(fields) ==
  IF DOMAIN fields = {} THEN ""
  ELSE LET name == CHOOSE n \in DOMAIN fields : TRUE IN
       FormatBulkString(name) \o FormatBulkString(fields[name])
         \o FormatFields([n \in DOMAIN fields \ {name} |-> fields[n]])

RECURSIVE FormatEntries(_)
FormatEntries(entries) ==
  IF entries = <<>> THEN ""
  ELSE LET e == Head(entries) IN
       "*2\r\n" \o FormatBulkString(e.ID)
         \o "*" \o ToString(2 * Cardinality(DOMAIN e.Fields)) \o "\r\n"
         \o FormatFields(e.Fields) \o FormatEntries(Tail(entries))

formatStreamEntries(entries) ==
  "*" \o ToString(Len(entries)) \o "\r\n" \o FormatEntries(entries)

\* -------------------------------------------------- handlers in one step
hist == <<sent, wlog>>
Reply(c, s) == out' = ConnWrite(out, c, Bytes(s))
Done(c) == h' = [h EXCEPT ![c] = H0]
ReplyOnly(c, s) ==
  /\ Reply(c, s)
  /\ Done(c)
  /\ UNCHANGED <<srvVars, transactions, hist>>
\* What each handler writes to the connection, as a function of the keyspace.
PingReply(args) == FormatSimpleString("PONG")

EchoReply(args) ==
  IF Len(args) < 1 THEN FormatError("wrong number of arguments for 'ECHO'")
  ELSE FormatBulkString(args[1])

GetReply(db, args, t) ==
  IF Len(args) < 1 THEN FormatError("wrong number of arguments for 'GET'")
  ELSE LET r == GetKey(db, args[1], t) IN
       IF ~r.ok THEN NullBulk ELSE FormatSimpleString(r.val)

TypeReply(db, args, t) ==
  IF Len(args) < 1 THEN FormatError("ERR no key provided")
  ELSE LET r == GetType(db, args[1], t) IN
       IF ~r.ok THEN FormatSimpleString("none") ELSE FormatSimpleString(r.val)

\* The reply of INCR and the keyspace it leaves.
IncrResult(db, args, t) ==
  IF Len(args) < 1
    THEN [reply |-> FormatError("wrong number of arguments for 'INCR'"), db |-> db]
  ELSE LET by == IF Len(args) > 1 /\ AtoiOk(args[2]) THEN Atoi(args[2]) ELSE 1
           r == Increment(db, args[1], by, t) IN
       IF ~r.ok
         THEN [reply |-> FormatError("ERR value is not an integer or out of range"), db |-> db]
       ELSE [reply |-> FormatInteger(Atoi(r.val)), db |-> r.db]

PingHandler(s, c, args) == ReplyOnly(c, PingReply(args))

EchoHandler(s, c, args) == ReplyOnly(c, EchoReply(args))

GetHandler(s, c, args) == ReplyOnly(c, GetReply(DB[s], args, now))

TypeHandler(s, c, args) == ReplyOnly(c, TypeReply(DB[s], args, now))

\* IncrHandler up to the DB.Load of Increment and to what Increment makes of
\* the value; the DB.Store and the reply follow in the next step.
IncrHandler(s, c, args) ==
  IF Len(args) < 1 THEN ReplyOnly(c, IncrResult(DB[s], args, now).reply)
  ELSE LET by == IF Len(args) > 1 /\ AtoiOk(args[2]) THEN Atoi(args[2]) ELSE 1
           r == Increment(DB[s], args[1], by, now) IN
       IF ~r.ok THEN ReplyOnly(c, FormatError("ERR value is not an integer or out of range"))
       ELSE /\ h' = [h EXCEPT ![c] = [H0 EXCEPT !.pc = "incr_store", !.frame = args,
                                               !.data = r.db[args[1]]]]
            /\ UNCHANGED <<srvVars, transactions, out, hist>>

\* An XADD that takes a key that holds a string for a key that holds nothing.
XAddHandlerReplaces(s, c, args) ==
  IF Len(args) < 3 THEN ReplyOnly(c, FormatError("ERR wrong number of arguments for 'XADD'"))
  ELSE /\ h' = [h EXCEPT ![c] = [H0 EXCEPT !.pc = "xadd_store", !.frame = args]]
       /\ UNCHANGED <<srvVars, transactions, out, hist>>

\* XAddHandler up to the DB.Load of GetOrCreateStream.  A key that holds no
\* stream yet has one allocated and stored in the next step; a key that holds
\* one gives the handler the pointer to it.
XAddHandler(s, c, args) ==
  IF Len(args) < 3 THEN ReplyOnly(c, FormatError("ERR wrong number of arguments for 'XADD'"))
  ELSE IF args[2] = "0-0" THEN ReplyOnly(c, FormatError(ErrZeroID))
  ELSE IF (Len(args) - 2) % 2 # 0
    THEN ReplyOnly(c, FormatError("ERR wrong number of arguments for XADD"))
  ELSE LET v == DB[s][args[1]] IN
       IF v.kind = "kv"
         THEN ReplyOnly(c, FormatError(
                "ERR WRONGTYPE Operation against a key holding the wrong kind of value"))
       ELSE /\ h' = [h EXCEPT ![c] =
                      IF v.kind = "none" \/ Expired(v, now)
                        THEN [H0 EXCEPT !.pc = "xadd_store", !.frame = args]
                        ELSE [H0 EXCEPT !.pc = "xadd_add", !.frame = args, !.ptr = v.ptr]]
            /\ UNCHANGED <<srvVars, transactions, out, hist>>

\* The handler of c holds the pointer to the object stored under key.
Holds(c, s, key) ==
  /\ h[c].pc = "xadd_add"
  /\ ServerOf(c) = s
  /\ h[c].frame[1] = key
  /\ DB[s][key].kind = "stream"
  /\ h[c].ptr = DB[s][key].ptr

\* The locals of the handlers after a string was stored under key: a handler
\* that holds the pointer to the stream the key held keeps the object, with
\* the content it has now.
Orphaned(s, key) ==
  [c2 \in Conns |->
     IF Holds(c2, s, key)
       THEN [h[c2] EXCEPT !.ptr = "orphan", !.stream = StreamObj(DB[s][key])]
       ELSE h[c2]]

\* Increment, its DB.Store, and the reply: IncrHandler writes the integer,
\* executeIncrCommand returns it to the loop of ExecHandler.
IncrStore(c) ==
  LET s == ServerOf(c)
      key == h[c].frame[1]
      data == [h[c].data EXCEPT !.T = now]
      reply == FormatInteger(Atoi(data.Val)) IN
  /\ h[c].pc = "incr_store"
  /\ DB' = [DB EXCEPT ![s][key] = data]
  /\ IF h[c].mode = "exec"
       THEN /\ h' = [Orphaned(s, key) EXCEPT ![c] =
                       [h[c] EXCEPT !.pc = "exec", !.frame = <<>>, !.data = NoVal,
                                    !.results = Append(@, reply)]]
            /\ out' = out
       ELSE /\ h' = [Orphaned(s, key) EXCEPT ![c] = H0]
            /\ Reply(c, reply)
  /\ UNCHANGED <<ReplicationOffset, ReplicaConn, ReplicaOffsets, AckReceived, transactions,
                 hist, replicaVars, envVars, obs>>

\* GetOrCreateStream, the DB.Store of the stream it allocated.  The object the
\* key held before is in the map no longer; a handler that holds the pointer
\* to it keeps the object, with the content it has now.
XAddStore(c) ==
  LET s == ServerOf(c)
      key == h[c].frame[1] IN
  /\ h[c].pc = "xadd_store"
  /\ DB' = [DB EXCEPT ![s][key] = StreamData(EmptyStream, c, -1, now)]
  /\ h' = [c2 \in Conns |->
             IF c2 = c THEN [h[c] EXCEPT !.pc = "xadd_add", !.ptr = c]
             ELSE IF Holds(c2, s, key)
               THEN [h[c2] EXCEPT !.ptr = "orphan", !.stream = StreamObj(DB[s][key])]
             ELSE h[c2]]
  /\ UNCHANGED <<ReplicationOffset, ReplicaConn, ReplicaOffsets, AckReceived, transactions,
                 out, hist, replicaVars, envVars, obs>>

\* The object the handler of c appends to: the one the map holds when the
\* pointer is still the map's, the handler's own otherwise.
HeldStream(c) ==
  IF Holds(c, ServerOf(c), h[c].frame[1])
    THEN StreamObj(DB[ServerOf(c)][h[c].frame[1]])
    ELSE h[c].stream

\* StreamAdd from stream.mutex.Lock on, and the reply of XAddHandler.
XAddLocked(c) ==
  LET s == ServerOf(c)
      args == h[c].frame
      key == args[1]
      r == StreamAdd(HeldStream(c), args[2], SubSeq(args, 3, Len(args)), now) IN
  /\ h[c].pc = "xadd_add"
  /\ DB' = IF Holds(c, s, key)
             THEN [DB EXCEPT ![s][key] = StreamData(r.stream, @.ptr, @.Px, @.T)]
             ELSE DB
  /\ Reply(c, IF r.ok THEN FormatBulkString(r.val) ELSE FormatError(r.val))
  /\ Done(c)
  /\ UNCHANGED <<ReplicationOffset, ReplicaConn, ReplicaOffsets, AckReceived, transactions,
                 hist, replicaVars, envVars, obs>>

XRangeHandler(s, c, args) ==
  IF Len(args) < 3 THEN ReplyOnly(c, FormatError("ERR wrong number of arguments for 'XRANGE'"))
  ELSE LET r == StreamRange(DB[s], args[1], args[2], args[3], now) IN
       IF ~r.ok
         THEN ReplyOnly(c, FormatError(
                "ERR WRONGTYPE Operation against a key holding the wrong kind of value"))
       ELSE ReplyOnly(c, formatStreamEntries(r.entries))

\* XReadHandler.Handle up to the loop that replaces '$': the error it writes,
\* or the keys, the IDs and the timeout it has parsed.
XReadParse(args) ==
  LET block == Len(args) >= 1 /\ ToUpper(args[1]) = "BLOCK"
      argIndex == IF block THEN 3 ELSE 1
      remainingArgs == SubSeq(args, argIndex + 1, Len(args))
      streamCount == Len(remainingArgs) \div 2
      No(msg) == [err |-> msg, streamKeys |-> <<>>, startIDs |-> <<>>, blockTimeout |-> -1]
  IN
  IF Len(args) < 3 THEN No("ERR wrong number of arguments for 'XREAD'")
  ELSE IF block /\ Len(args) < 5 THEN No("ERR wrong number of arguments for 'XREAD'")
  ELSE IF block /\ ~AtoiOk(args[2]) THEN No("ERR timeout is not an integer or out of range")
  ELSE IF ToUpper(args[argIndex]) # "STREAMS" THEN No("ERR syntax error")
  ELSE IF Len(remainingArgs) % 2 # 0
    THEN No("ERR Unbalanced XREAD list of streams: for each stream key an ID or '$' must be specified")
  ELSE [err |-> "",
        streamKeys |-> SubSeq(remainingArgs, 1, streamCount),
        startIDs |-> SubSeq(remainingArgs, streamCount + 1, Len(remainingArgs)),
        blockTimeout |-> IF block THEN Atoi(args[2]) ELSE -1]

\* The first index from i on at which startIDs holds '$', 0 when there is none.
NextDollar(startIDs, i) ==
  IF \E j \in i..Len(startIDs) : startIDs[j] = "$"
    THEN CHOOSE j \in i..Len(startIDs) :
           startIDs[j] = "$" /\ \A l \in i..(j - 1) : startIDs[l] # "$"
    ELSE 0

writeXreadResponse(results, streamKeys) ==
  LET withData == SelectSeq(streamKeys, LAMBDA key :
                    key \in DOMAIN results /\ Len(results[key]) > 0) IN
  IF Len(withData) = 0 THEN NullBulk
  ELSE "*" \o ToString(Len(withData)) \o "\r\n"
         \o Concat([n \in DOMAIN withData |->
                      "*2\r\n" \o FormatBulkString(withData[n])
                        \o formatStreamEntries(results[withData[n]])])

\* performBlockingRead, the check of the timeout.
TimedOut(blockTimeout, elapsed) == blockTimeout > 0 /\ elapsed >= blockTimeout

\* StreamReadMultiple, one StreamReadFrom with locals hc, and what performRead
\* or performBlockingRead does when it was the last one of the loop.
XReadRead(s, c, hc) ==
  LET key == hc.streamKeys[hc.i]
      r == StreamReadFrom(DB[s], key, hc.startIDs[hc.i], now)
      results == IF Len(r.entries) > 0 THEN MapPut(hc.found, key, r.entries) ELSE hc.found
  IN
  IF ~r.ok
    THEN /\ Reply(c, FormatError(
                "ERR WRONGTYPE Operation against a key holding the wrong kind of value"))
         /\ Done(c)
  ELSE IF hc.i < Len(hc.streamKeys)
    THEN /\ h' = [h EXCEPT ![c] = [hc EXCEPT !.pc = "xread_read", !.found = results,
                                              !.i = @ + 1]]
         /\ out' = out
  ELSE IF hc.blockTimeout = -1 \/ DOMAIN results # {}
    THEN /\ Reply(c, writeXreadResponse(results, hc.streamKeys))
         /\ Done(c)
  ELSE /\ h' = [h EXCEPT ![c] = [hc EXCEPT !.pc = "xread_timeout", !.found = EmptyMap,
                                            !.i = 1]]
       /\ out' = out

\* XReadHandler.Handle, the loop that replaces '$': one GetStreamLastID with
\* locals hc.  When no '$' is left performRead or performBlockingRead starts.
XReadIDs(s, c, hc) ==
  LET j == NextDollar(hc.startIDs, hc.i) IN
  IF j # 0
    THEN /\ h' = [h EXCEPT ![c] = [hc EXCEPT
                    !.pc = "xread_ids",
                    !.startIDs[j] = GetStreamLastID(DB[s], hc.streamKeys[j], now),
                    !.i = j + 1]]
         /\ out' = out
    ELSE XReadRead(s, c, [hc EXCEPT !.i = 1, !.startTime = now])

\* XREAD [BLOCK ms] STREAMS key... id..., up to the first access to the
\* keyspace.
XReadHandler(s, c, args) ==
  LET p == XReadParse(args) IN
  IF p.err # "" THEN ReplyOnly(c, FormatError(p.err))
  ELSE IF Len(p.streamKeys) = 0 THEN ReplyOnly(c, NullBulk)
  ELSE /\ XReadIDs(s, c, [H0 EXCEPT !.streamKeys = p.streamKeys, !.startIDs = p.startIDs,
                                    !.blockTimeout = p.blockTimeout, !.i = 1])
       /\ UNCHANGED <<srvVars, transactions, hist>>

\* XReadHandler after its first step: the next GetStreamLastID or
\* StreamReadFrom.
XReadNext(c) ==
  /\ h[c].pc \in {"xread_ids", "xread_read"}
  /\ IF h[c].pc = "xread_ids"
       THEN XReadIDs(ServerOf(c), c, h[c])
       ELSE XReadRead(ServerOf(c), c, h[c])
  /\ UNCHANGED <<srvVars, transactions, hist, replicaVars, envVars, obs>>

\* performBlockingRead after a read that found nothing: time.Since(startTime)
\* and the null reply when the timeout has passed, time.Sleep otherwise.
XReadTimeout(c) ==
  /\ h[c].pc = "xread_timeout"
  /\ IF TimedOut(h[c].blockTimeout, now - h[c].startTime)
       THEN /\ Reply(c, NullBulk)
            /\ Done(c)
       ELSE /\ h' = [h EXCEPT ![c].pc = "xread_sleep"]
            /\ out' = out
  /\ UNCHANGED <<srvVars, transactions, hist, replicaVars, envVars, obs>>

\* performBlockingRead after time.Sleep: IsConnectionClosed, and the return
\* without a reply when the client has closed the connection.
XReadWake(c) ==
  /\ h[c].pc = "xread_sleep"
  /\ h' = [h EXCEPT ![c] = IF c \in closed THEN H0 ELSE [@ EXCEPT !.pc = "xread_read"]]
  /\ UNCHANGED <<srvVars, transactions, out, hist, replicaVars, envVars, obs>>

\* ------------------------------------------------------ SET and fan-out
\* The command SetHandler and executeSetCommand hand to ReplicateCommand.
SetFrame(key, val, ms) ==
  IF ms > -1 THEN <<"SET", key, val, "PX", Itoa(ms)>> ELSE <<"SET", key, val>>

\* ms as the handlers read it: -1 unless the arguments are key value PX n.
SetMs(args) ==
  IF Len(args) = 4 /\ ToUpper(args[3]) = "PX" THEN Atoi(args[4]) ELSE -1

SetHandler(s, c, args) ==
  IF Len(args) < 2
    THEN ReplyOnly(c, FormatError("wrong number of arguments for 'SET'"))
  ELSE IF ~IsMaster(s)
    THEN ReplyOnly(c, FormatError("READONLY You can't write against a read only replica."))
  ELSE
    /\ DB' = [DB EXCEPT ![s] = SetKey(@, args[1], args[2], SetMs(args), now)]
    /\ h' = [Orphaned(s, args[1]) EXCEPT ![c] = [H0 EXCEPT !.pc = "repl_offset",
                                         !.frame = SetFrame(args[1], args[2], SetMs(args))]]
    /\ UNCHANGED <<ReplicationOffset, ReplicaConn, ReplicaOffsets, AckReceived,
                   transactions, out, hist>>

\* What follows ReplicateCommand in its caller: SetHandler writes +OK,
\* executeSetCommand returns "+OK\r\n" to the loop of ExecHandler.
AfterReplicate(c, o) ==
  IF h[c].mode = "exec"
    THEN /\ h' = [h EXCEPT ![c] = [@ EXCEPT !.pc = "exec", !.frame = <<>>, !.snap = <<>>,
                                             !.i = 0,
                                             !.results = Append(@, "+OK\r\n")]]
         /\ out' = o
    ELSE /\ h' = [h EXCEPT ![c] = H0]
         /\ out' = ConnWrite(o, c, Bytes(FormatSimpleString("OK")))

\* ReplicateCommand, first critical section: UpdateReplicationOffset.
ReplOffset(c) ==
  LET s == ServerOf(c) IN
  /\ h[c].pc = "repl_offset"
  /\ ReplicationOffset' = [ReplicationOffset EXCEPT
         ![s] = UpdateReplicationOffset(@, Len(EncodeArray(h[c].frame)))]
  /\ sent' = Append(sent, h[c].frame)
  /\ h' = [h EXCEPT ![c].pc = "repl_snap"]
  /\ UNCHANGED <<DB, ReplicaConn, ReplicaOffsets, AckReceived, transactions, out, wlog,
                 replicaVars, envVars, obs>>

\* ReplicateCommand, second critical section: the copy of ReplicaConn.
ReplSnap(c) ==
  LET s == ServerOf(c) IN
  /\ h[c].pc = "repl_snap"
  /\ IF ReplicaConn[s] = <<>>
       THEN AfterReplicate(c, out)
       ELSE /\ h' = [h EXCEPT ![c] = [@ EXCEPT !.pc = "repl_write",
                                                !.snap = ReplicaConn[s], !.i = 1]]
            /\ out' = out
  /\ UNCHANGED <<srvVars, transactions, hist, replicaVars, envVars, obs>>

\* ReplicateCommand, the loop: conn.Write outside any lock; a failed write
\* removes the replica and goes on with the next one.
ReplWrite(c) ==
  LET s == ServerOf(c)
      conn == h[c].snap[h[c].i] IN
  /\ h[c].pc = "repl_write"
  /\ IF conn \in closed
       THEN /\ RemoveReplica(s, conn)
            /\ wlog' = wlog
            /\ IF h[c].i = Len(h[c].snap)
                 THEN AfterReplicate(c, out)
                 ELSE /\ h' = [h EXCEPT ![c].i = @ + 1]
                      /\ out' = out
       ELSE /\ out' = ConnWrite(out, conn, Frame(h[c].frame))
            /\ wlog' = [wlog EXCEPT ![conn] = Append(@, h[c].frame)]
            /\ h' = [h EXCEPT ![c].pc = "repl_ack"]
            /\ UNCHANGED <<ReplicaConn, ReplicaOffsets>>
  /\ UNCHANGED <<DB, ReplicationOffset, AckReceived, transactions, sent,
                 replicaVars, envVars, obs>>

\* ReplicateCommand, the loop: ReplicaOffsets[conn] += bytesWritten.
ReplAck(c) ==
  LET s == ServerOf(c)
      conn == h[c].snap[h[c].i] IN
  /\ h[c].pc = "repl_ack"
  /\ ReplicaOffsets' = [ReplicaOffsets EXCEPT
         ![s] = MapPut(@, conn, MapGet(@, conn) + Len(EncodeArray(h[c].frame)))]
  /\ IF h[c].i = Len(h[c].snap)
       THEN AfterReplicate(c, out)
       ELSE /\ h' = [h EXCEPT ![c] = [@ EXCEPT !.pc = "repl_write", !.i = @ + 1]]
            /\ out' = out
  /\ UNCHANGED <<DB, ReplicationOffset, ReplicaConn, AckReceived, transactions, hist,
                 replicaVars, envVars, obs>>

\* ------------------------------------------------- REPLCONF and PSYNC
\* The non-blocking send on the channel AckReceived.
Offer(ch, conn) == IF Len(ch) < AckCap THEN Append(ch, conn) ELSE ch

ReplconfHandler(s, c, args) ==
  IF Len(args) < 1
    THEN ReplyOnly(c, FormatError("wrong number of arguments for 'REPLCONF'"))
  ELSE IF ToUpper(args[1]) = "GETACK"
    THEN IF IsSlave(s)
           THEN ReplyOnly(c, EncodeArray(<<"REPLCONF", "ACK", Itoa(ReplicationOffset[s])>>))
           ELSE ReplyOnly(c, EncodeArray(
                  <<"REPLCONF", "ACK", Itoa(GetReplicaOffset(ReplicaOffsets[s], c))>>))
  ELSE IF ToUpper(args[1]) = "ACK"
    THEN IF Len(args) >= 2 /\ AtoiOk(args[2])
           THEN /\ ReplicaOffsets' = [ReplicaOffsets EXCEPT
                       ![s] = UpdateReplicaOffset(@, c, Atoi(args[2]))]
                /\ AckReceived' = [AckReceived EXCEPT ![s] = Offer(@, c)]
                /\ Done(c)
                /\ UNCHANGED <<DB, ReplicationOffset, ReplicaConn, transactions, out, hist>>
           ELSE /\ Done(c)
                /\ UNCHANGED <<srvVars, transactions, out, hist>>
  ELSE ReplyOnly(c, FormatSimpleString("OK"))

PsyncHandler(s, c, args) ==
  IF Len(args) # 2 THEN ReplyOnly(c, FormatError("ERR invalid PSYNC arguments"))
  ELSE IF args[1] = "?" /\ args[2] = "-1"
    THEN /\ AddReplica(s, c)
         /\ h' = [h EXCEPT ![c] = [H0 EXCEPT !.pc = "fullresync"]]
         /\ UNCHANGED <<DB, ReplicationOffset, AckReceived, transactions, out, hist>>
  ELSE /\ AddReplica(s, c)
       /\ Reply(c, FormatSimpleString("CONTINUE"))
       /\ Done(c)
       /\ UNCHANGED <<DB, ReplicationOffset, AckReceived, transactions, hist>>

\* SendFullResync: the FULLRESYNC line, the length header and the snapshot.
SendFullResync(c) ==
  LET s == ServerOf(c) IN
  /\ h[c].pc = "fullresync"
  /\ out' = ConnWrite(ConnWrite(out, c,
               Bytes(FormatSimpleString("FULLRESYNC " \o ReplID \o " "
                                          \o ToString(ReplicationOffset[s])))), c, Rdb)
  /\ Done(c)
  /\ UNCHANGED <<srvVars, transactions, hist, replicaVars, envVars, obs>>

\* ------------------------------------------------------------------- WAIT
\* The test of the counting loop of WaitHandler on ReplicaOffsets[conn].
WaitCounts(ro, masterOffset) == ro <= 0

\* The counting loop of WaitHandler over ReplicaConn.
InitialAcks(conns, offsets, masterOffset) ==
  Cardinality({i \in DOMAIN conns : WaitCounts(MapGet(offsets, conns[i]), masterOffset)})

\* The replicas of the registry whose recorded offset has reached a target.
CaughtUp(s, target) ==
  Cardinality({i \in DOMAIN ReplicaConn[s] :
                 MapGet(ReplicaOffsets[s], ReplicaConn[s][i]) >= target})

WaitReply(c, acks) ==
  /\ out' = ConnWrite(out, c, Bytes(FormatInteger(acks)))
  /\ h' = [h EXCEPT ![c] = H0]
  /\ obs' = [obs EXCEPT ![c] = [@ EXCEPT !.wreply = acks,
                                         !.wregs = Len(ReplicaConn[ServerOf(c)]),
                                         !.wcaught = CaughtUp(ServerOf(c), h[c].masterOffset)]]

\* WaitHandler up to the read of the offset and of the number of replicas.
WaitHandler(s, c, args) ==
  IF IsSlave(s)
    THEN ReplyOnly(c, FormatError("ERR WAIT cannot be used with replica instances."))
  ELSE IF Len(args) < 2
    THEN ReplyOnly(c, FormatError("wrong number of arguments for 'WAIT'"))
  ELSE IF ~AtoiOk(args[1]) \/ ~AtoiOk(args[2])
    THEN ReplyOnly(c, FormatError("invalid arguments for 'WAIT'"))
  ELSE IF Len(ReplicaConn[s]) = 0 THEN ReplyOnly(c, FormatInteger(0))
  ELSE /\ h' = [h EXCEPT ![c] = [H0 EXCEPT !.pc = "wait_getack", !.count = Atoi(args[1]),
                                          !.masterOffset = ReplicationOffset[s],
                                          !.snap = ReplicaConn[s], !.i = 1]]
       /\ UNCHANGED <<srvVars, transactions, out, hist>>

\* WaitHandler, the loop that writes REPLCONF GETACK * to every replica.
WaitGetAck(c) ==
  LET conn == h[c].snap[h[c].i] IN
  /\ h[c].pc = "wait_getack"
  /\ out' = IF conn \in closed THEN out ELSE ConnWrite(out, conn, Frame(GetAckFrame))
  /\ h' = [h EXCEPT ![c] = IF h[c].i = Len(h[c].snap)
                             THEN [@ EXCEPT !.pc = "wait_count", !.snap = <<>>, !.i = 0]
                             ELSE [@ EXCEPT !.i = @ + 1]]
  /\ UNCHANGED <<srvVars, transactions, hist, replicaVars, envVars, obs>>

\* WaitHandler, the initial count; the timer starts here.  When the count
\* reaches the number asked for the loop is not entered and WAIT replies.
WaitCount(c) ==
  LET s == ServerOf(c)
      acks == InitialAcks(ReplicaConn[s], ReplicaOffsets[s], h[c].masterOffset) IN
  /\ h[c].pc = "wait_count"
  /\ IF acks < h[c].count
       THEN /\ h' = [h EXCEPT ![c] = [@ EXCEPT !.pc = "wait_loop", !.acks = acks]]
            /\ UNCHANGED <<out, obs>>
       ELSE WaitReply(c, acks)
  /\ UNCHANGED <<srvVars, transactions, hist, replicaVars, envVars>>

\* WaitHandler, the select: a receive from AckReceived.
WaitAck(c) ==
  LET s == ServerOf(c) IN
  /\ h[c].pc = "wait_loop"
  /\ AckReceived[s] # <<>>
  /\ AckReceived' = [AckReceived EXCEPT ![s] = Tail(@)]
  /\ IF h[c].acks + 1 < h[c].count
       THEN /\ h' = [h EXCEPT ![c].acks = @ + 1]
            /\ UNCHANGED <<out, obs>>
       ELSE WaitReply(c, h[c].acks + 1)
  /\ UNCHANGED <<DB, ReplicationOffset, ReplicaConn, ReplicaOffsets, transactions, hist,
                 replicaVars, envVars>>

\* WaitHandler, the select: the timer fires.
WaitTimeout(c) ==
  /\ h[c].pc = "wait_loop"
  /\ WaitReply(c, h[c].acks)
  /\ UNCHANGED <<srvVars, transactions, hist, replicaVars, envVars>>

\* ------------------------------------------------- MULTI, EXEC, DISCARD
\* A MULTI that opens a new transaction whatever the state of the connection.
MultiHandlerRestarts(s, c, args) ==
  /\ transactions' = StartTransaction(transactions, c)
  /\ Reply(c, FormatSimpleString("OK"))
  /\ Done(c)
  /\ UNCHANGED <<srvVars, hist>>

MultiHandler(s, c, args) ==
  IF IsInTransaction(transactions, c)
    THEN ReplyOnly(c, FormatError("MULTI calls can not be nested"))
  ELSE /\ transactions' = StartTransaction(transactions, c)
       /\ Reply(c, FormatSimpleString("OK"))
       /\ Done(c)
       /\ UNCHANGED <<srvVars, hist>>

DiscardHandler(s, c, args) ==
  IF ~IsInTransaction(transactions, c)
    THEN ReplyOnly(c, FormatError("ERR DISCARD without MULTI"))
  ELSE /\ transactions' = DiscardTransaction(transactions, c)
       /\ Reply(c, FormatSimpleString("OK"))
       /\ Done(c)
       /\ UNCHANGED <<srvVars, hist>>

ExecHandler(s, c, args) ==
  IF ~IsInTransaction(transactions, c)
    THEN ReplyOnly(c, FormatError("ERR EXEC without MULTI"))
  ELSE /\ h' = [h EXCEPT ![c] = [H0 EXCEPT !.pc = "exec", !.mode = "exec",
                                          !.queue = GetQueuedCommands(transactions, c)]]
       /\ UNCHANGED <<srvVars, transactions, out, hist>>

executeGetCommand(db, args, t) ==
  IF Len(args) < 1 THEN FormatError("ERR wrong number of arguments for 'GET'")
  ELSE LET r == GetKey(db, args[1], t) IN
       IF ~r.ok THEN NullBulk ELSE FormatBulkString(r.val)

executeEchoCommand(args) ==
  IF Len(args) < 1 THEN FormatError("ERR wrong number of arguments for 'ECHO'")
  ELSE FormatBulkString(args[1])

executePingCommand(args) ==
  IF Len(args) = 0 THEN FormatSimpleString("PONG") ELSE FormatBulkString(args[1])

\* The loop of ExecHandler: one queued command per step, then the array of
\* the results and the end of the transaction.
ExecStep(c) ==
  LET s == ServerOf(c)
      q == Head(h[c].queue)
      cmd == ToUpper(q.Command)
      Result(r) == h' = [h EXCEPT ![c] = [@ EXCEPT !.queue = Tail(@),
                                                   !.results = Append(@, r)]]
  IN
  /\ h[c].pc = "exec"
  /\ IF h[c].queue = <<>>
       THEN /\ out' = ConnWrite(out, c, Bytes(FormatArray2(h[c].results)))
            /\ transactions' = EndTransaction(transactions, c)
            /\ h' = [h EXCEPT ![c] = H0]
            /\ DB' = DB
     ELSE IF cmd = "SET"
       THEN IF Len(q.Args) < 2
              THEN /\ Result(FormatError("ERR wrong number of arguments for 'SET'"))
                   /\ UNCHANGED <<DB, out, transactions>>
            ELSE /\ DB' = [DB EXCEPT ![s] = SetKey(@, q.Args[1], q.Args[2], SetMs(q.Args), now)]
                 /\ IF IsMaster(s)
                      THEN h' = [Orphaned(s, q.Args[1]) EXCEPT ![c] = [h[c] EXCEPT
                                   !.queue = Tail(@), !.pc = "repl_offset",
                                   !.frame = SetFrame(q.Args[1], q.Args[2], SetMs(q.Args))]]
                      ELSE h' = [Orphaned(s, q.Args[1]) EXCEPT ![c] = [h[c] EXCEPT
                                   !.queue = Tail(@), !.results = Append(@, "+OK\r\n")]]
                 /\ UNCHANGED <<out, transactions>>
     ELSE IF cmd = "INCR"
       THEN IF Len(q.Args) < 1
              THEN /\ Result(FormatError("ERR wrong number of arguments for 'INCR'"))
                   /\ UNCHANGED <<DB, out, transactions>>
            ELSE LET r == Increment(DB[s], q.Args[1], 1, now) IN
                 /\ IF r.ok
                      THEN h' = [h EXCEPT ![c] = [@ EXCEPT
                                   !.queue = Tail(@), !.pc = "incr_store",
                                   !.frame = q.Args, !.data = r.db[q.Args[1]]]]
                      ELSE Result(FormatError("ERR value is not an integer or out of range"))
                 /\ UNCHANGED <<DB, out, transactions>>
     ELSE /\ Result(CASE cmd = "GET" -> executeGetCommand(DB[s], q.Args, now)
                      [] cmd = "ECHO" -> executeEchoCommand(q.Args)
                      [] cmd = "PING" -> executePingCommand(q.Args)
                      [] OTHER -> FormatError("ERR unknown command '" \o q.Command \o "'"))
          /\ UNCHANGED <<DB, out, transactions>>
  /\ UNCHANGED <<ReplicationOffset, ReplicaConn, ReplicaOffsets, AckReceived, hist,
                 replicaVars, envVars, obs>>

\* ------------------------------------------ handleClientConnection (main.go)
\* One iteration of the loop on a command that was read whole.  The handlers
\* of KEYS, CONFIG, INFO and COMMAND are not part of the model and these
\* commands are never sent.
Handle(s, c, cmd, args) ==
  CASE cmd = "PING" -> PingHandler(s, c, args)
    [] cmd = "ECHO" -> EchoHandler(s, c, args)
    [] cmd = "GET" -> GetHandler(s, c, args)
    [] cmd = "SET" -> SetHandler(s, c, args)
    [] cmd = "INCR" -> IncrHandler(s, c, args)
    [] cmd = "TYPE" -> TypeHandler(s, c, args)
    [] cmd = "XADD" -> XAddHandler(s, c, args)
    [] cmd = "XRANGE" -> XRangeHandler(s, c, args)
    [] cmd = "XREAD" -> XReadHandler(s, c, args)
    [] cmd = "MULTI" -> MultiHandler(s, c, args)
    [] cmd = "EXEC" -> ExecHandler(s, c, args)
    [] cmd = "DISCARD" -> DiscardHandler(s, c, args)
    [] cmd = "REPLCONF" -> ReplconfHandler(s, c, args)
    [] cmd = "PSYNC" -> PsyncHandler(s, c, args)
    [] cmd = "WAIT" -> WaitHandler(s, c, args)
    [] OTHER -> ReplyOnly(c, FormatError("unknown command '" \o cmd \o "'"))

handleClientConnection(c, args) ==
  LET s == ServerOf(c)
      cmd == ToUpper(args[1])
      commandArgs == Tail(args) IN
  IF Len(args) < 1 THEN ReplyOnly(c, FormatError("ERR parsing args"))
  ELSE IF IsInTransaction(transactions, c) /\ cmd \notin {"EXEC", "DISCARD", "MULTI"}
    THEN /\ transactions' = QueueCommand(transactions, c, cmd, commandArgs)
         /\ Reply(c, FormatSimpleString("QUEUED"))
         /\ Done(c)
         /\ UNCHANGED <<srvVars, hist>>
  ELSE Handle(s, c, cmd, commandArgs)

\* What is remembered of the command a connection's handler took last.
Observe(c, args) ==
  obs' = [obs EXCEPT ![c] = [Obs0 EXCEPT
            !.cmd = args, !.n = obs[c].n + 1,
            !.regs = Range(ReplicaConn[ServerOf(c)]),
            !.caught = CaughtUp(ServerOf(c), ReplicationOffset[ServerOf(c)]),
            !.queued = GetQueuedCommands(transactions, c)]]

\* A client sends a command and the handler of its connection takes it; max
\* is the number of commands the clients send in one behaviour.
Send(c, args, max) ==
  /\ h[c].pc = "idle"
  /\ c \notin closed
  /\ ncmd < max
  /\ ncmd' = ncmd + 1
  /\ handleClientConnection(c, args)
  /\ Observe(c, args)
  /\ UNCHANGED <<replicaVars, closed, now, boot, codec>>

ClientCommand(c, args) == Send(c, args, MaxCmds)

\* The handler of a replica's connection takes the next command the replica
\* wrote to it.
LinkCommand(r) ==
  /\ h[r].pc = "idle"
  /\ up[r] # <<>>
  /\ up' = [up EXCEPT ![r] = Tail(@)]
  /\ handleClientConnection(r, Head(up[r]))
  /\ Observe(r, Head(up[r]))
  /\ UNCHANGED <<rpc, rlog, ackObs, envVars>>

\* ------------------------------------- the replica's goroutine (SendHandshake)
Port(r) == IF r = "R1" THEN "6380" ELSE "6381"

RECURSIVE SumLen(_)
SumLen(frames) ==
  IF frames = <<>> THEN 0 ELSE Len(EncodeArray(Head(frames))) + SumLen(Tail(frames))

\* SendHandshake, step 1: PING is written.
HandshakePing(r) ==
  /\ rpc[r] = "start"
  /\ up' = [up EXCEPT ![r] = Append(@, <<"PING">>)]
  /\ rpc' = [rpc EXCEPT ![r] = "wait_pong"]
  /\ UNCHANGED <<srvVars, transactions, h, out, hist, rlog, ackObs, envVars, obs>>

\* SendHandshake, expectSimpleString and the command written after it; a
\* reply that is not the expected one ends the process (log.Fatalf).
HandshakeExpect(r) ==
  LET expected == IF rpc[r] = "wait_pong" THEN "PONG" ELSE "OK"
      nextCmd == CASE rpc[r] = "wait_pong" -> <<"REPLCONF", "listening-port", Port(r)>>
                   [] rpc[r] = "wait_ok1" -> <<"REPLCONF", "capa", "psync2">>
                   [] OTHER -> <<"PSYNC", "?", "-1">>
      nextPc == CASE rpc[r] = "wait_pong" -> "wait_ok1"
                  [] rpc[r] = "wait_ok1" -> "wait_ok2"
                  [] OTHER -> "wait_fullresync" IN
  /\ rpc[r] \in {"wait_pong", "wait_ok1", "wait_ok2"}
  /\ out[r] # <<>>
  /\ out' = [out EXCEPT ![r] = Tail(@)]
  /\ IF Head(out[r]) = Bytes(FormatSimpleString(expected))
       THEN /\ up' = [up EXCEPT ![r] = Append(@, nextCmd)]
            /\ rpc' = [rpc EXCEPT ![r] = nextPc]
       ELSE /\ up' = up
            /\ rpc' = [rpc EXCEPT ![r] = "fatal"]
  /\ UNCHANGED <<srvVars, transactions, h, hist, rlog, ackObs, envVars, obs>>

\* SendHandshake, step 4: the line after PSYNC is read and not checked, then
\* the header and the bytes of the snapshot are read and dropped, the flag is
\* set and the offset is set to 0.  The bufio.Reader of the handshake may hold
\* frames that arrived behind the snapshot; handleMasterConnection reads the
\* connection through a new scanner and never sees them.
\* A frame that arrived before the FULLRESYNC line is read in place of the
\* line and of the header.  What the new scanner reads first then depends on
\* how much the reader had buffered: something that is no array, and the loop
\* of handleMasterConnection returns (j = 0), or the frames behind the
\* snapshot, some of them lost as above.
HandshakeFullResync(r) ==
  /\ rpc[r] = "wait_fullresync"
  /\ out[r] # <<>>
  /\ ReplicationOffset' = [ReplicationOffset EXCEPT ![r] = 0]
  /\ IF Head(out[r]).t = "bytes"
       THEN /\ Len(out[r]) >= 2
            /\ out[r][2] = Rdb
            /\ \E k \in 0..(Len(out[r]) - 2) :
                 out' = [out EXCEPT ![r] = SubSeq(@, 3 + k, Len(@))]
            /\ rpc' = [rpc EXCEPT ![r] = "ingest"]
       ELSE \E j \in {0} \cup {i \in DOMAIN out[r] : out[r][i] = Rdb} :
              IF j = 0
                THEN /\ rpc' = [rpc EXCEPT ![r] = "returned"]
                     /\ out' = out
                ELSE /\ rpc' = [rpc EXCEPT ![r] = "ingest"]
                     /\ \E k \in 0..(Len(out[r]) - j) :
                          out' = [out EXCEPT ![r] = SubSeq(@, j + 1 + k, Len(@))]
  /\ UNCHANGED <<DB, ReplicaConn, ReplicaOffsets, AckReceived, transactions, h, up, hist,
                 rlog, ackObs, envVars, obs>>

\* ------------------------------------------- handleMasterConnection (main.go)
\* A replica that adds the bytes of the GETACK before it writes the ACK.
AckValueAfterAdd(offset, commandBytes) == offset + commandBytes

\* The offset a replica puts in its REPLCONF ACK.
AckValue(offset, commandBytes) == offset

\* An ingestion loop that never reads the expiry of a SET.
IngestMsNone(args) == -1

\* ms as the ingestion loop reads it from SET key value PX n.
IngestMs(args) ==
  IF Len(args) = 5 /\ ToUpper(args[4]) = "PX" /\ AtoiOk(args[5]) THEN Atoi(args[5]) ELSE -1

\* One frame of the primary: its bytes are added to the offset, a SET is
\* applied, a REPLCONF without subcommand is dropped.
Ingest(r) ==
  LET args == Head(out[r]).args
      commandBytes == Len(EncodeArray(args))
      cmd == ToUpper(args[1]) IN
  /\ rpc[r] = "ingest"
  /\ out[r] # <<>>
  /\ Head(out[r]).t = "frame"
  /\ IF Len(args) = 0
       THEN /\ out' = [out EXCEPT ![r] = Tail(@)]
            /\ UNCHANGED <<DB, ReplicationOffset, up, rpc, rlog, ackObs>>
     ELSE IF cmd = "REPLCONF" /\ Len(args) >= 2 /\ ToUpper(args[2]) = "GETACK"
       THEN /\ up' = [up EXCEPT ![r] = Append(@,
                       <<"REPLCONF", "ACK",
                         ToString(AckValue(ReplicationOffset[r], commandBytes))>>)]
            /\ ackObs' = [ackObs EXCEPT ![r] =
                       [acks |-> @.acks + 1,
                        n |-> AckValue(ReplicationOffset[r], commandBytes),
                        sum |-> SumLen(rlog[r])]]
            /\ rpc' = [rpc EXCEPT ![r] = "acked"]
            /\ UNCHANGED <<DB, ReplicationOffset, out, rlog>>
     ELSE /\ out' = [out EXCEPT ![r] = Tail(@)]
          /\ rlog' = [rlog EXCEPT ![r] = Append(@, args)]
          /\ ReplicationOffset' = [ReplicationOffset EXCEPT
                 ![r] = IF cmd = "REPLCONF" /\ Len(args) < 2 THEN @ ELSE @ + commandBytes]
          /\ DB' = IF cmd = "SET" /\ Len(args) >= 3
                     THEN [DB EXCEPT ![r] = SetKey(@, args[2], args[3], IngestMs(args), now)]
                     ELSE DB
          /\ UNCHANGED <<up, rpc, ackObs>>
  /\ UNCHANGED <<ReplicaConn, ReplicaOffsets, AckReceived, transactions, h, hist,
                 envVars, obs>>

\* After the ACK is written the bytes of the GETACK frame are added.
IngestGetAck(r) ==
  LET args == Head(out[r]).args IN
  /\ rpc[r] = "acked"
  /\ out' = [out EXCEPT ![r] = Tail(@)]
  /\ rlog' = [rlog EXCEPT ![r] = Append(@, args)]
  /\ ReplicationOffset' = [ReplicationOffset EXCEPT ![r] = @ + Len(EncodeArray(args))]
  /\ rpc' = [rpc EXCEPT ![r] = "ingest"]
  /\ UNCHANGED <<DB, ReplicaConn, ReplicaOffsets, AckReceived, transactions, h, up, hist,
                 ackObs, envVars, obs>>

\* ------------------------------------------------------------ behaviours
\* Every process has just started: NewServer, an empty keyspace, no
\* connection yet.
Fresh ==
  /\ DB = [s \in Servers |-> EmptyDB]
  /\ ReplicationOffset = [s \in Servers |-> 0]
  /\ ReplicaConn = [s \in Servers |-> <<>>]
  /\ ReplicaOffsets = [s \in Servers |-> EmptyMap]
  /\ AckReceived = [s \in Servers |-> <<>>]
  /\ transactions = EmptyMap
  /\ h = [c \in Conns |-> H0]
  /\ out = [c \in Conns |-> <<>>]
  /\ up = [r \in Replicas |-> <<>>]
  /\ rpc = [r \in Replicas |-> "start"]
  /\ closed = {}
  /\ ncmd = 0
  /\ sent = <<>>
  /\ wlog = [c \in Conns |-> <<>>]
  /\ rlog = [r \in Replicas |-> <<>>]
  /\ ackObs = [r \in Replicas |-> [acks |-> 0, n |-> 0, sum |-> 0]]
  /\ obs = [c \in Conns |-> Obs0]

\* main without a file to load (cfg.DBFileName is empty): the listener is
\* open at once.
Listening == [pc |-> "listening", file |-> NoFile, err |-> FALSE]

Init ==
  /\ Fresh
  /\ now = 0
  /\ boot = Listening
  /\ codec = NoCodec

\* main: rdb.ParseRDB on the file of the configuration; an error is logged
\* and the listener is opened.
LoadRdb ==
  LET r == ParseRDB(boot.file, DB[Primary], now) IN
  /\ boot.pc = "load"
  /\ DB' = [DB EXCEPT ![Primary] = r.db]
  /\ boot' = [boot EXCEPT !.pc = "listening", !.err = r.err]
  /\ UNCHANGED <<ReplicationOffset, ReplicaConn, ReplicaOffsets, AckReceived, transactions,
                 h, out, hist, replicaVars, closed, now, ncmd, codec, obs>>

\* bufio.Scanner.Scan finds no line in its buffer and reads what the socket
\* holds, or a part of it.
ScanFill ==
  /\ codec.pc \in {"header", "length", "content"}
  /\ NewlineAt(codec.buf) = 0
  /\ \E n \in 1..Len(codec.wire) :
       codec' = [codec EXCEPT !.buf = @ \o SubSeq(codec.wire, 1, n),
                              !.wire = SubSeq(@, n + 1, Len(@))]
  /\ UNCHANGED <<srvVars, transactions, h, out, hist, replicaVars, closed, now, ncmd, boot,
                 obs>>

\* ReadArrayArguments: the array header.
ReadHeader ==
  LET line == ScanText(codec.buf)
      count == AtoiBytes(Tail(line)) IN
  /\ codec.pc = "header"
  /\ NewlineAt(codec.buf) # 0
  /\ codec' = IF line = <<>> \/ Head(line) # "*" \/ ~count.ok
                THEN [codec EXCEPT !.pc = "false", !.buf = ScanRest(@)]
                ELSE [codec EXCEPT !.pc = IF count.n = 0 THEN "true" ELSE "length",
                                   !.count = count.n, !.buf = ScanRest(@)]
  /\ UNCHANGED <<srvVars, transactions, h, out, hist, replicaVars, closed, now, ncmd, boot,
                 obs>>

\* ReadArrayArguments: the length line of a bulk string.
ReadLength ==
  LET line == ScanText(codec.buf)
      length == AtoiBytes(Tail(line)) IN
  /\ codec.pc = "length"
  /\ NewlineAt(codec.buf) # 0
  /\ codec' = IF line = <<>> \/ Head(line) # "$" \/ ~length.ok
                THEN [codec EXCEPT !.pc = "false", !.buf = ScanRest(@)]
                ELSE [codec EXCEPT !.pc = "content", !.length = length.n,
                                   !.buf = ScanRest(@)]
  /\ UNCHANGED <<srvVars, transactions, h, out, hist, replicaVars, closed, now, ncmd, boot,
                 obs>>

\* ReadArrayArguments: the content line; a line shorter than the length is
\* completed with one conn.Read on the socket, past the buffer of the scanner.
ReadContent ==
  LET content == ScanText(codec.buf)
      remaining == codec.length - Len(content) IN
  /\ codec.pc = "content"
  /\ NewlineAt(codec.buf) # 0
  /\ \E n \in IF remaining > 0
               THEN {m \in 1..remaining : m <= Len(codec.wire)}
               ELSE {0} :
       LET args == Append(codec.args, content \o SubSeq(codec.wire, 1, n)) IN
       codec' = [codec EXCEPT !.pc = IF Len(args) = codec.count THEN "true" ELSE "length",
                              !.args = args,
                              !.buf = ScanRest(@),
                              !.wire = SubSeq(@, n + 1, Len(@))]
  /\ UNCHANGED <<srvVars, transactions, h, out, hist, replicaVars, closed, now, ncmd, boot,
                 obs>>

\* The loop of handleClientConnection calls ReadArrayArguments again.
ReadNext ==
  /\ codec.pc = "true"
  /\ codec.behind # <<>>
  /\ codec' = [codec EXCEPT !.pc = "header", !.args = <<>>, !.input = Head(codec.behind),
                            !.behind = Tail(codec.behind)]
  /\ UNCHANGED <<srvVars, transactions, h, out, hist, replicaVars, closed, now, ncmd, boot,
                 obs>>

\* time.Now() moves on by a millisecond.
Tick ==
  /\ now < MaxIdNum
  /\ now' = now + 1
  /\ UNCHANGED <<srvVars, transactions, h, out, hist, replicaVars, closed, ncmd, boot, codec, obs>>

\* The peer of connection c closes it.
Close(c) ==
  /\ c \notin closed
  /\ closed' = closed \cup {c}
  /\ UNCHANGED <<srvVars, transactions, h, out, hist, replicaVars, now, ncmd, boot, codec, obs>>

\* handleClientConnection finds the connection closed at the top of its loop
\* and returns; the deferred function calls RemoveReplica ...
ExitRemoveReplica(c) ==
  /\ h[c].pc = "idle"
  /\ c \in closed
  /\ RemoveReplica(ServerOf(c), c)
  /\ h' = [h EXCEPT ![c].pc = "cleanup"]
  /\ UNCHANGED <<DB, ReplicationOffset, AckReceived, transactions, out, hist, replicaVars,
                 envVars, obs>>

\* ... and CleanupConnection, and the goroutine ends.
ExitCleanup(c) ==
  /\ h[c].pc = "cleanup"
  /\ transactions' = CleanupConnection(transactions, c)
  /\ h' = [h EXCEPT ![c].pc = "gone"]
  /\ UNCHANGED <<srvVars, out, hist, replicaVars, envVars, obs>>

\* The end of handleClientConnection.
Exit(c) ==
  \/ ExitRemoveReplica(c)
  \/ ExitCleanup(c)

\* XReadHandler after its first step.
XRead(c) ==
  \/ XReadNext(c)
  \/ XReadTimeout(c)
  \/ XReadWake(c)

\* XAddHandler after its first step.
XAdd(c) ==
  \/ XAddStore(c)
  \/ XAddLocked(c)

\* ReplicateCommand, from the offset to the last replica.
Replicate(c) ==
  \/ ReplOffset(c)
  \/ ReplSnap(c)
  \/ ReplWrite(c)
  \/ ReplAck(c)

\* WaitHandler after its first step.
Wait(c) ==
  \/ WaitGetAck(c)
  \/ WaitCount(c)
  \/ WaitAck(c)
  \/ WaitTimeout(c)

\* A replica's goroutine until the end of SendHandshake.
Handshake(r) ==
  \/ HandshakePing(r)
  \/ HandshakeExpect(r)
  \/ HandshakeFullResync(r)

\* Replica R1 attaches while two clients of the primary write and wait.
Menu(c) ==
  IF c = "c1" THEN {<<"SET", "k", "1">>, <<"WAIT", "1", "0">>, <<"WAIT", "2", "0">>}
  ELSE {<<"SET", "k", "v">>}

Next ==
  \/ \E c \in Clients : \E args \in Menu(c) : ClientCommand(c, args)
  \/ \E c \in Clients : Replicate(c)
  \/ \E c \in Clients : Wait(c)
  \/ Handshake("R1")
  \/ LinkCommand("R1")
  \/ SendFullResync("R1")
  \/ Ingest("R1")
  \/ IngestGetAck("R1")

Spec == Init /\ [][Next]_vars

\* Both replicas attach and no client is connected.
NextAttach ==
  \/ \E r \in Replicas : Handshake(r)
  \/ \E r \in Replicas : LinkCommand(r)
  \/ \E r \in Replicas : SendFullResync(r)

SpecAttach == Init /\ [][NextAttach]_vars

\* The state after the replicas of the list rs have completed the handshake,
\* one after the other, with no client connected.
Index(seq, x) == CHOOSE i \in DOMAIN seq : seq[i] = x

AttachedObs(rs, c) ==
  IF c \in Range(rs)
    THEN [Obs0 EXCEPT !.cmd = <<"PSYNC", "?", "-1">>, !.n = 4,
                      !.regs = {rs[j] : j \in 1..(Index(rs, c) - 1)},
                      !.caught = Index(rs, c) - 1]
    ELSE Obs0

InitAttached(rs) ==
  /\ DB = [s \in Servers |-> EmptyDB]
  /\ ReplicationOffset = [s \in Servers |-> 0]
  /\ ReplicaConn = [s \in Servers |-> IF s = Primary THEN rs ELSE <<>>]
  /\ ReplicaOffsets = [s \in Servers |->
                         IF s = Primary THEN [r \in Range(rs) |-> 0] ELSE EmptyMap]
  /\ AckReceived = [s \in Servers |-> <<>>]
  /\ transactions = EmptyMap
  /\ h = [c \in Conns |-> H0]
  /\ out = [c \in Conns |-> <<>>]
  /\ up = [r \in Replicas |-> <<>>]
  /\ rpc = [r \in Replicas |-> IF r \in Range(rs) THEN "ingest" ELSE "start"]
  /\ closed = {}
  /\ now = 0
  /\ ncmd = 0
  /\ boot = Listening
  /\ codec = NoCodec
  /\ sent = <<>>
  /\ wlog = [c \in Conns |-> <<>>]
  /\ rlog = [r \in Replicas |-> <<>>]
  /\ ackObs = [r \in Replicas |-> [acks |-> 0, n |-> 0, sum |-> 0]]
  /\ obs = [c \in Conns |-> AttachedObs(rs, c)]

\* SpecAttach reaches each of the attached states the other behaviours
\* start from.
AttachedBoth == InitAttached(<<"R1", "R2">>)
AttachedOne == InitAttached(<<"R1">>)

\* Two attached replicas, two clients that write.
MenuFan(c) == IF c = "c1" THEN {<<"SET", "k", "1">>} ELSE {<<"SET", "k", "v">>}

NextFan ==
  \/ \E c \in Clients : \E args \in MenuFan(c) : ClientCommand(c, args)
  \/ \E c \in Clients : Replicate(c)
  \/ \E r \in Replicas : Ingest(r)

SpecFan == AttachedBoth /\ [][NextFan]_vars

\* One attached replica; the first client sends every command of the model,
\* the second one opens a transaction and writes.
MenuCmds(c) ==
  IF c = "c1"
    THEN {<<"SET", "k", "1">>, <<"GET", "k">>, <<"PING">>, <<"ECHO", "hi">>, <<"TYPE", "k">>,
          <<"INCR", "k">>, <<"XADD", "s", "1-1", "f", "v">>, <<"XRANGE", "s", "-", "+">>,
          <<"XREAD", "STREAMS", "s", "0-0">>, <<"WAIT", "1", "0">>,
          <<"REPLCONF", "GETACK", "*">>, <<"PSYNC", "?", "-1">>,
          <<"MULTI">>, <<"EXEC">>, <<"DISCARD">>}
    ELSE {<<"MULTI">>, <<"SET", "k", "v">>}

NextCmds ==
  \/ \E c \in Clients : \E args \in MenuCmds(c) : ClientCommand(c, args)
  \/ \E c \in Clients : Replicate(c)
  \/ \E c \in Clients : Wait(c)
  \/ \E c \in Clients : ExecStep(c)
  \/ \E c \in Clients : XAdd(c)
  \/ \E c \in Clients : IncrStore(c)
  \/ \E c \in Clients : SendFullResync(c)
  \/ LinkCommand("R1")
  \/ Ingest("R1")
  \/ IngestGetAck("R1")

SpecCmds == AttachedOne /\ [][NextCmds]_vars

\* A client of replica R1.
MenuReplica == {<<"SET", "k", "1">>, <<"INCR", "k">>, <<"XADD", "s", "1-1", "f", "v">>,
                <<"GET", "k">>, <<"MULTI">>, <<"EXEC">>}

NextReplica ==
  \/ \E c \in ReplicaClients : \E args \in MenuReplica : ClientCommand(c, args)
  \/ \E c \in ReplicaClients : ExecStep(c)
  \/ \E c \in ReplicaClients : XAdd(c)
  \/ \E c \in ReplicaClients : IncrStore(c)

SpecReplica == AttachedOne /\ [][NextReplica]_vars

\* One attached replica that does not read; the first client runs a
\* transaction of up to two commands, the second one writes.
MenuTx(c) ==
  IF c = "c1"
    THEN {<<"MULTI">>, <<"SET", "k", "1">>, <<"GET", "k">>, <<"EXEC">>, <<"DISCARD">>}
    ELSE {<<"SET", "k", "v">>}

NextTx ==
  \/ \E c \in Clients : \E args \in MenuTx(c) : Send(c, args, MaxTxCmds)
  \/ \E c \in Clients : Replicate(c)
  \/ \E c \in Clients : ExecStep(c)

SpecTx == AttachedOne /\ [][NextTx]_vars

\* A primary that has just started, its clock at 1.
InitStream ==
  /\ Fresh
  /\ now = 1
  /\ boot = Listening
  /\ codec = NoCodec

\* Two clients of a primary without replicas append to the stream s while
\* the clock, which shows 1 at the start, moves on.
MenuStream ==
  {<<"XADD", "s", id, "f", "v">> : id \in {"*", "0-*", "1-*", "1-1", "2-0", "0-0", "x-*"}}
    \cup {<<"XADD", "s", "1-1", "f", "v", "g">>}

NextStream ==
  \/ \E c \in Clients : \E args \in MenuStream : ClientCommand(c, args)
  \/ \E c \in Clients : XAdd(c)
  \/ Tick

SpecStream == InitStream /\ [][NextStream]_vars

\* Two clients of a primary without replicas append to the stream s with
\* explicit IDs and with IDs whose sequence number the server chooses.
MenuMsStar ==
  {<<"XADD", "s", id, "f", "v">> : id \in {"0-*", "1-*", "2-*", "1-1", "2-0"}}

NextMsStar ==
  \/ \E c \in Clients : \E args \in MenuMsStar : ClientCommand(c, args)
  \/ \E c \in Clients : XAdd(c)

SpecMsStar == InitStream /\ [][NextMsStar]_vars

\* Two clients of a primary without replicas append the entries 0-1, 0-2 and
\* 1-0 to the stream s; the first one also reads ranges of s and of the key
\* k, which holds nothing, and reads the streams from an ID on.
MenuRange(c) ==
  {<<"XADD", "s", id, "f", "v">> : id \in {"0-1", "0-2", "1-0"}}
    \cup IF c = "c1"
           THEN {<<"XRANGE", "s", "-", "+">>, <<"XRANGE", "s", "0-2", "+">>,
                 <<"XRANGE", "s", "-", "0-2">>, <<"XRANGE", "s", "0-2", "0-2">>,
                 <<"XRANGE", "s", "1-0", "0-1">>, <<"XRANGE", "k", "-", "+">>,
                 <<"XREAD", "STREAMS", "s", "0-1">>, <<"XREAD", "STREAMS", "s", "$">>,
                 <<"XREAD", "STREAMS", "k", "0-0">>,
                 <<"XREAD", "STREAMS", "s", "k", "0-1", "0-0">>,
                 <<"XREAD", "STREAMS", "k", "s", "$", "$">>}
           ELSE {}

NextRange ==
  \/ \E c \in Clients : \E args \in MenuRange(c) : Send(c, args, MaxReadCmds)
  \/ \E c \in Clients : XAdd(c)
  \/ \E c \in Clients : XReadNext(c)

SpecRange == InitStream /\ [][NextRange]_vars

\* A client of a primary without replicas reads the stream s, or s and k,
\* with BLOCK and may close its connection; a second client appends to s
\* while the clock, which shows 1 at the start, moves on.
MenuBlock(c) ==
  IF c = "c1"
    THEN {<<"XREAD", "BLOCK", "1", "STREAMS", "s", "$">>,
          <<"XREAD", "BLOCK", "0", "STREAMS", "s", "0-0">>,
          <<"XREAD", "BLOCK", "1", "STREAMS", "s", "k", "1-1", "0-0">>}
    ELSE {<<"XADD", "s", "1-1", "f", "v">>, <<"XADD", "s", "2-0", "f", "v">>}

NextBlock ==
  \/ \E c \in Clients : \E args \in MenuBlock(c) : ClientCommand(c, args)
  \/ \E c \in Clients : XAdd(c)
  \/ XRead("c1")
  \/ Close("c1")
  \/ Tick

SpecBlock == InitStream /\ [][NextBlock]_vars

\* The goroutine of a blocked reader is scheduled again and again, and its
\* time.Sleep returns.
FairBlock == SpecBlock /\ WF_vars(XRead("c1"))

\* A primary without replicas whose clock moves on: the first client sets,
\* reads and increments the key k, the second one appends to it.
MenuKeys(c) ==
  IF c = "c1"
    THEN {<<"SET", "k", "v">>, <<"SET", "k", "1", "PX", "1">>, <<"GET", "k">>, <<"INCR", "k">>}
    ELSE {<<"XADD", "k", "1-1", "f", "v">>}

NextKeys ==
  \/ \E c \in Clients : \E args \in MenuKeys(c) : ClientCommand(c, args)
  \/ \E c \in Clients : ReplOffset(c)
  \/ \E c \in Clients : ReplSnap(c)
  \/ \E c \in Clients : IncrStore(c)
  \/ \E c \in Clients : XAdd(c)
  \/ Tick

SpecKeys == Init /\ [][NextKeys]_vars

\* Two clients of a primary without replicas set the key k with an expiry
\* of one or two milliseconds and read it while the clock moves on.
MenuTtl == {<<"SET", "k", "v", "PX", "1">>, <<"SET", "k", "v", "PX", "2">>, <<"GET", "k">>}

NextTtl ==
  \/ \E c \in Clients : \E args \in MenuTtl : ClientCommand(c, args)
  \/ \E c \in Clients : ReplOffset(c)
  \/ \E c \in Clients : ReplSnap(c)
  \/ Tick

SpecTtl == Init /\ [][NextTtl]_vars

\* Two clients of a primary without replicas increment the keys k and s,
\* which hold nothing at the start.
MenuIncr == {<<"INCR", "k">>, <<"INCR", "s">>}

NextIncr ==
  \/ \E c \in Clients : \E args \in MenuIncr : ClientCommand(c, args)
  \/ \E c \in Clients : IncrStore(c)

SpecIncr == Init /\ [][NextIncr]_vars

\* One client of a primary without replicas sets the key k to the largest
\* int, to a string that is no integer or to 1 with an expiry, and increments
\* it, while the clock moves on.
MenuSeq ==
  {<<"SET", "k", Itoa(AtoiMax)>>, <<"SET", "k", "v">>, <<"SET", "k", "1", "PX", "1">>,
   <<"INCR", "k">>}

NextSeq ==
  \/ \E args \in MenuSeq : ClientCommand("c1", args)
  \/ ReplOffset("c1")
  \/ ReplSnap("c1")
  \/ IncrStore("c1")
  \/ Tick

SpecSeq == Init /\ [][NextSeq]_vars

\* A primary that has just started: the first client registers its
\* connection as a replica, opens a transaction or writes, and closes the
\* connection; the second client writes.
MenuClose(c) ==
  IF c = "c1" THEN {<<"PSYNC", "?", "-1">>, <<"MULTI">>, <<"SET", "k", "1">>}
  ELSE {<<"SET", "k", "v">>}

NextClose ==
  \/ \E c \in Clients : \E args \in MenuClose(c) : ClientCommand(c, args)
  \/ \E c \in Clients : Replicate(c)
  \/ SendFullResync("c1")
  \/ Close("c1")
  \/ Exit("c1")

SpecClose == Init /\ [][NextClose]_vars

\* Two attached replicas whose connections may break, two clients that write.
NextDrop ==
  \/ \E c \in Clients : \E args \in MenuFan(c) : Send(c, args, MaxDropCmds)
  \/ \E c \in Clients : Replicate(c)
  \/ \E r \in Replicas : Ingest(r)
  \/ \E r \in Replicas : Close(r)

SpecDrop == AttachedBoth /\ [][NextDrop]_vars

\* One attached replica: a client of the primary sets k with an expiry, a
\* client of the replica reads k while the clock moves on.
MenuExpiry(c) ==
  IF c \in Clients
    THEN {<<"SET", "k", "v", "PX", "1">>, <<"SET", "k", "w", "PX", "2">>, <<"SET", "k", "u">>}
    ELSE {<<"GET", "k">>}

NextExpiry ==
  \/ \E c \in {"c1", "d1"} : \E args \in MenuExpiry(c) : ClientCommand(c, args)
  \/ Replicate("c1")
  \/ Ingest("R1")
  \/ Tick

SpecExpiry == AttachedOne /\ [][NextExpiry]_vars

\* Two clients of a primary without replicas append to the stream s; the
\* first one reads ranges whose bounds are the ms part of an ID alone.
MenuBare(c) ==
  {<<"XADD", "s", id, "f", "v">> : id \in {"0-1", "1-0", "1-1", "2-0"}}
    \cup IF c = "c1"
           THEN {<<"XRANGE", "s", "1", "+">>, <<"XRANGE", "s", "-", "1">>,
                 <<"XRANGE", "s", "1", "1">>, <<"XRANGE", "s", "2", "1-1">>}
           ELSE {}

NextBare ==
  \/ \E c \in Clients : \E args \in MenuBare(c) : Send(c, args, MaxReadCmds)
  \/ \E c \in Clients : XAdd(c)

SpecBare == InitStream /\ [][NextBare]_vars

\* One attached replica; the first client writes and waits, the second one,
\* which never sends PSYNC, sends REPLCONF ACK.
MenuForge(c) ==
  IF c = "c1" THEN {<<"SET", "k", "1">>, <<"WAIT", "1", "0">>}
  ELSE {<<"REPLCONF", "ACK", "5">>}

NextForge ==
  \/ \E c \in Clients : \E args \in MenuForge(c) : ClientCommand(c, args)
  \/ Replicate("c1")
  \/ Wait("c1")
  \/ LinkCommand("R1")
  \/ Ingest("R1")
  \/ IngestGetAck("R1")

SpecForge == AttachedOne /\ [][NextForge]_vars

\* A primary of any make writes a frame to the link of replica r.
PrimaryWrites(r, args) ==
  /\ ncmd < MaxFrames
  /\ ncmd' = ncmd + 1
  /\ out' = ConnWrite(out, r, Frame(args))
  /\ UNCHANGED <<srvVars, transactions, h, hist, replicaVars, closed, now, boot, codec, obs>>

\* The frames replica R1 is sent after its handshake.
MenuIngest ==
  {<<"PING">>, <<"SET", "k", "v">>, <<"SET", "k">>, <<"REPLCONF">>, <<"REPLCONF", "GETACK", "*">>,
   <<"REPLCONF", "capa", "psync2">>, <<"DEL", "k">>, <<>>}

NextIngest ==
  \/ \E args \in MenuIngest : PrimaryWrites("R1", args)
  \/ Ingest("R1")
  \/ IngestGetAck("R1")
  \/ LinkCommand("R1")

SpecIngest == AttachedOne /\ [][NextIngest]_vars

\* The records of the dump files of the model.
LoadRecs ==
  {Rec("00", 0, "", "k", "v", FALSE), Rec("FA", 0, "", "", "", FALSE),
   Rec("FF", 0, "", "", "", FALSE), Rec("AB", 0, "", "", "", FALSE),
   Rec("FD", 0, "", "", "", TRUE), Rec("FC", 2, "01", "s", "w", FALSE)}
    \cup {Rec("FD", e, "00", "s", "w", FALSE) : e \in 0..1}
    \cup {Rec("FC", e, "00", "s", "w", FALSE) : e \in 1..2}

LoadFiles ==
  {RdbFile("REDIS", recs) : recs \in UNION {[1..n -> LoadRecs] : n \in 0..MaxRecs}}
    \cup {RdbFile("RUBIS", <<Rec("00", 0, "", "k", "v", FALSE)>>)}

\* A primary that starts with a dump file; a client reads the keys once the
\* listener is open.
InitLoad ==
  /\ Fresh
  /\ now = 0
  /\ boot \in {[pc |-> "load", file |-> f, err |-> FALSE] : f \in LoadFiles}
  /\ codec = NoCodec

MenuLoad == {<<"GET", "k">>, <<"GET", "s">>}

NextLoad ==
  \/ LoadRdb
  \/ Tick
  \/ \E args \in MenuLoad : boot.pc = "listening" /\ Send("c1", args, MaxLoadCmds)

SpecLoad == InitLoad /\ [][NextLoad]_vars

\* The peer of a connection has written a frame of EncodeArray and the frame
\* of PING behind it; the handler of the connection reads them.
Strings == UNION {[1..n -> {"a", "\r", "\n"}] : n \in 0..MaxStrLen}
ArgLists == UNION {[1..n -> Strings] : n \in 0..MaxArgs}
PingBytes == <<<<"P", "I", "N", "G">>>>

InitCodec ==
  /\ Fresh
  /\ now = 0
  /\ boot = Listening
  /\ codec \in {[NoCodec EXCEPT !.pc = "header", !.input = args, !.behind = <<PingBytes>>,
                                 !.wire = EncodeFrames(<<args, PingBytes>>)] :
                   args \in ArgLists}

NextCodec ==
  \/ ScanFill
  \/ ReadHeader
  \/ ReadLength
  \/ ReadContent
  \/ ReadNext

SpecCodec == InitCodec /\ [][NextCodec]_vars

\* ------------------------------------------------------------ properties
IsPrefix(a, b) == Len(a) <= Len(b) /\ SubSeq(b, 1, Len(a)) = a

WriteCommands == {"SET", "INCR", "XADD"}

\* The commands the specification lists as leaving the offset alone.
NonWrites == {"GET", "PING", "ECHO", "TYPE", "XRANGE", "XREAD", "WAIT", "REPLCONF",
              "PSYNC", "MULTI", "DISCARD"}

\* The step is the first step of the handler of c on a command.
Dispatched(c) == obs'[c].n = obs[c].n + 1

\* Every handler of the primary is between two commands, nothing is in
\* flight on the link of r and r is reading frames.
Quiet(r) ==
  /\ \A c \in Clients \cup Replicas : h[c].pc = "idle"
  /\ out[r] = <<>>
  /\ up[r] = <<>>
  /\ rpc[r] = "ingest"

\* C1: every replica is written the same frames in the same order: of the
\* sequences written to two replicas one is a prefix of the other, also when
\* two client connections write at the same time.
C1_SameFrameOrder ==
  \A r1, r2 \in Replicas : IsPrefix(wlog[r1], wlog[r2]) \/ IsPrefix(wlog[r2], wlog[r1])

\* C2: the primary's replication offset never decreases; it is the sum of the
\* encoded lengths of the writes fanned out so far, which are the frames
\* written to a replica attached from the start once the handlers are done;
\* it only changes in ReplicateCommand, by the length of the frame, and never
\* in the handler of GET, PING, ECHO, TYPE, XRANGE, XREAD, WAIT, REPLCONF,
\* PSYNC, MULTI or DISCARD.
C2_Step ==
  /\ ReplicationOffset'[Primary] >= ReplicationOffset[Primary]
  /\ ReplicationOffset'[Primary] # ReplicationOffset[Primary] =>
       \E c \in Clients :
         /\ h[c].pc = "repl_offset"
         /\ obs[c].cmd[1] \notin NonWrites
         /\ ReplicationOffset'[Primary] =
              ReplicationOffset[Primary] + Len(EncodeArray(h[c].frame))
  /\ \A c \in Clients :
       (Dispatched(c) /\ obs'[c].cmd[1] \in NonWrites) =>
         ReplicationOffset'[Primary] = ReplicationOffset[Primary]

C2_OffsetIsSumOfWrites ==
  /\ [](/\ ReplicationOffset[Primary] = SumLen(sent)
        /\ SumLen(wlog["R1"]) <= ReplicationOffset[Primary]
        /\ (\A c \in Clients : h[c].pc = "idle") =>
              SumLen(wlog["R1"]) = ReplicationOffset[Primary])
  /\ [][C2_Step]_vars

\* C2 witness: two writes were fanned out to the replica and counted, and the
\* handler of a command that is not a write has run after them.
C2_Witness ==
  /\ Len(sent) = 2
  /\ ReplicationOffset[Primary] = SumLen(sent)
  /\ wlog["R1"] = sent
  /\ \E c \in Clients : h[c].pc = "idle" /\ obs[c].n > 0 /\ obs[c].cmd[1] \in NonWrites

\* C3: the offset in a replica's REPLCONF ACK is the sum of the lengths of
\* the frames it processed since the handshake, the GETACK it answers left
\* out; the bytes of that GETACK are added once the ACK is written.
C3_AckBeforeAdd ==
  \A r \in Replicas :
    /\ ackObs[r].acks > 0 => ackObs[r].n = ackObs[r].sum
    /\ rpc[r] \in {"ingest", "acked"} => ReplicationOffset[r] = SumLen(rlog[r])
    /\ rpc[r] = "acked" =>
         /\ ReplicationOffset[r] = ackObs[r].n
         /\ up[r] # <<>> => up[r][Len(up[r])] = <<"REPLCONF", "ACK", ToString(ackObs[r].n)>>
         /\ Head(out[r]).args = GetAckFrame

\* C3 witness: the second ACK of a replica that processed a SET and a GETACK
\* before it is written, and the bytes of the second GETACK are not added yet.
C3_Witness ==
  /\ rpc["R1"] = "acked"
  /\ ackObs["R1"].acks = 2
  /\ ackObs["R1"].n = Len(EncodeArray(<<"SET", "k", "1">>)) + Len(EncodeArray(GetAckFrame))

\* C4: when a replica has replied to a GETACK that came after every other
\* frame and nothing is in flight, its local offset is the primary's offset,
\* or at least the offset it acknowledged is; for every GETACK.
C4_OffsetsComparable ==
  \A r \in Replicas :
    (/\ Quiet(r)
     /\ ackObs[r].acks > 0
     /\ rlog[r] # <<>>
     /\ rlog[r][Len(rlog[r])] = GetAckFrame)
    => \/ ReplicationOffset[r] = ReplicationOffset[Primary]
       \/ ackObs[r].n = ReplicationOffset[Primary]

\* C5: the offset the primary recorded for a replica is never above the
\* primary's own replication offset.
C5_KnownOffsetBounded ==
  \A conn \in DOMAIN ReplicaOffsets[Primary] :
    ReplicaOffsets[Primary][conn] <= ReplicationOffset[Primary]

\* The replies of a SET, INCR or XADD that was carried out.
AcceptedReplies ==
  {FormatSimpleString("OK"), FormatBulkString("1-1")}
    \cup {FormatInteger(n) : n \in 1..MaxCmds}

\* C6: a SET, INCR or XADD the primary accepted was encoded, counted into the
\* replication offset and written to each replica before its reply.
C6_AcceptedWriteReplicated ==
  \A c \in Clients :
    (/\ h[c].pc = "idle"
     /\ obs[c].n > 0
     /\ obs[c].cmd[1] \in WriteCommands
     /\ \E r \in AcceptedReplies : out[c] = <<Bytes(r)>>)
    => /\ obs[c].cmd \in Range(sent)
       /\ obs[c].cmd \in Range(wlog["R1"])

\* C7: a replica answers a client's SET, INCR or XADD with -READONLY; its
\* keyspace and offset stay as they are and nothing is replicated.
C7_Step ==
  \A d \in ReplicaClients :
    (/\ Dispatched(d)
     /\ obs'[d].cmd[1] \in WriteCommands
     /\ ~IsInTransaction(transactions, d))
    => /\ out'[d] =
            <<Bytes(FormatError("READONLY You can't write against a read only replica."))>>
       /\ DB' = DB
       /\ ReplicationOffset' = ReplicationOffset
       /\ sent' = sent
       /\ wlog' = wlog

C7_ReplicaRejectsWrites == [][C7_Step]_vars

\* C8: the reply of WAIT counts replicas whose recorded offset has reached the
\* offset WAIT read at entry, so it is at most the number of those replicas
\* and at most the number of registered replicas.
C8_WaitReplyBounded ==
  \A c \in Clients :
    obs[c].wreply # -1 =>
      /\ obs[c].wreply <= obs[c].wregs
      /\ obs[c].wreply <= obs[c].wcaught

\* C9: when the number of replicas asked for had already reached the
\* primary's offset as WAIT arrived, WAIT does not wait and its reply is at
\* least that number.
C9_ImmediateReply ==
  \A c \in Clients :
    /\ h[c].pc = "wait_loop" => obs[c].caught < h[c].count
    /\ (obs[c].wreply # -1 /\ obs[c].caught >= Atoi(obs[c].cmd[2])) =>
         obs[c].wreply >= Atoi(obs[c].cmd[2])

\* C10: inside a transaction a command other than MULTI, EXEC and DISCARD is
\* put at the end of the connection's queue and answered +QUEUED; the
\* keyspace, the replica registry, the offsets and the transactions of the
\* other connections stay as they are.
C10_Step ==
  \A c \in Clients :
    (/\ Dispatched(c)
     /\ IsInTransaction(transactions, c)
     /\ ToUpper(obs'[c].cmd[1]) \notin {"MULTI", "EXEC", "DISCARD"})
    => /\ c \in DOMAIN transactions'
       /\ transactions'[c].Commands =
            Append(transactions[c].Commands,
                   [Command |-> ToUpper(obs'[c].cmd[1]), Args |-> Tail(obs'[c].cmd)])
       /\ transactions'[c].InTransaction
       /\ out'[c] = <<Bytes("+QUEUED\r\n")>>
       /\ UNCHANGED <<DB, ReplicaConn, ReplicaOffsets, ReplicationOffset, AckReceived>>
       /\ DOMAIN transactions' = DOMAIN transactions
       /\ \A c2 \in DOMAIN transactions \ {c} : transactions'[c2] = transactions[c2]

C10_QueuedInOrder == [][C10_Step]_vars

\* C10 witness: a SET sent inside a transaction sits in the connection's queue
\* and was answered +QUEUED, the keyspace is untouched, and another connection
\* is in a transaction of its own.
C10_Witness ==
  /\ IsInTransaction(transactions, "c1")
  /\ IsInTransaction(transactions, "c2")
  /\ transactions["c2"].Commands = <<[Command |-> "SET", Args |-> <<"k", "v">>]>>
  /\ out["c2"] = <<Bytes("+QUEUED\r\n")>>
  /\ DB[Primary] = EmptyDB

\* The last element of a sequence that is not empty.
Last(seq) == seq[Len(seq)]

\* The reply of an XADD that no other handler interleaves with.
XAddAlone(db, args, t) ==
  IF Len(args) < 3 THEN FormatError("ERR wrong number of arguments for 'XADD'")
  ELSE IF args[2] = "0-0" THEN FormatError(ErrZeroID)
  ELSE IF (Len(args) - 2) % 2 # 0 THEN FormatError("ERR wrong number of arguments for XADD")
  ELSE IF db[args[1]].kind = "kv"
    THEN FormatError("ERR WRONGTYPE Operation against a key holding the wrong kind of value")
  ELSE LET v == db[args[1]]
           stream == IF v.kind = "none" \/ Expired(v, t) THEN EmptyStream ELSE StreamObj(v)
           r == StreamAdd(stream, args[2], SubSeq(args, 3, Len(args)), t) IN
       IF r.ok THEN FormatBulkString(r.val) ELSE FormatError(r.val)

\* The reply the handler of a command writes when the command arrives outside
\* a transaction on server s with keyspace db.
DirectReply(s, db, cmd, args, t) ==
  CASE cmd = "PING" -> PingReply(args)
    [] cmd = "ECHO" -> EchoReply(args)
    [] cmd = "GET" -> GetReply(db, args, t)
    [] cmd = "TYPE" -> TypeReply(db, args, t)
    [] cmd = "INCR" -> IncrResult(db, args, t).reply
    [] cmd = "XADD" -> XAddAlone(db, args, t)
    [] cmd = "SET" ->
         IF Len(args) < 2 THEN FormatError("wrong number of arguments for 'SET'")
         ELSE IF ~IsMaster(s)
           THEN FormatError("READONLY You can't write against a read only replica.")
         ELSE FormatSimpleString("OK")
    [] OTHER -> FormatError("unknown command '" \o cmd \o "'")

\* C11: EXEC runs the queued commands in queue order; the reply it collects
\* for a command is the reply the command gets outside a transaction in the
\* same state; the reply of EXEC is the array of the n replies and the
\* connection is in no transaction afterwards.
C11_Step ==
  \A c \in Clients :
    /\ (Dispatched(c) /\ h'[c].pc = "exec") =>
         h'[c].queue = transactions[c].Commands
    /\ (h[c].pc = "exec" /\ h[c].queue # <<>> /\ h'[c] # h[c]) =>
         /\ h'[c].queue = Tail(h[c].queue)
         /\ h'[c].results # h[c].results =>
              h'[c].results =
                Append(h[c].results,
                       DirectReply(ServerOf(c), DB[ServerOf(c)], ToUpper(Head(h[c].queue).Command),
                                   Head(h[c].queue).Args, now))
    /\ (h[c].mode = "exec" /\ h[c].pc # "exec" /\ h'[c].results # h[c].results) =>
         h'[c].results =
           Append(h[c].results,
                  IF h[c].pc = "incr_store" THEN FormatInteger(Atoi(h[c].data.Val))
                  ELSE FormatSimpleString("OK"))
    /\ (h[c].pc = "exec" /\ h[c].queue = <<>> /\ h'[c] # h[c]) =>
         /\ out'[c] = <<Bytes(FormatArray2(h[c].results))>>
         /\ Len(h[c].results) = Len(transactions[c].Commands)
         /\ ~IsInTransaction(transactions', c)

C11_ExecRepliesAsDirect == [][C11_Step]_vars

\* The EXEC of connection c has executed its first queued command and not
\* yet its last one.
ExecMid(c) ==
  /\ h[c].mode = "exec"
  /\ h[c].results # <<>> \/ h[c].pc # "exec"
  /\ h[c].queue # <<>>

\* C12: EXEC is atomic: between the first and the last queued command of an
\* EXEC no step of another connection's handler changes the keyspace of the
\* primary or fans a frame out to a replica.
C12_Step ==
  \A c \in Clients :
    (ExecMid(c) /\ h'[c] = h[c]) =>
      /\ DB'[Primary] = DB[Primary]
      /\ sent' = sent
      /\ wlog' = wlog

C12_ExecAtomic == [][C12_Step]_vars

\* C13: DISCARD in a transaction replies +OK and drops the transaction with
\* its queue; a command has no effect on the keyspace or on the replication
\* offset while it is queued or when it is dropped; a later MULTI starts with
\* an empty queue and EXEC runs the queue of the transaction that is open
\* when it arrives, so no later EXEC runs a command that was dropped.
C13_Step ==
  \A c \in Clients :
    LET cmd == ToUpper(obs'[c].cmd[1]) IN
    Dispatched(c) =>
      /\ (cmd = "DISCARD" /\ IsInTransaction(transactions, c)) =>
           /\ out'[c] = <<Bytes(FormatSimpleString("OK"))>>
           /\ c \notin DOMAIN transactions'
           /\ h'[c] = H0
      /\ (cmd # "EXEC" /\ IsInTransaction(transactions, c)) =>
           /\ DB' = DB
           /\ ReplicationOffset' = ReplicationOffset
           /\ sent' = sent
           /\ h'[c] = H0
      /\ (cmd = "MULTI" /\ ~IsInTransaction(transactions, c)) =>
           transactions'[c].Commands = <<>>
      /\ cmd = "EXEC" =>
           IF IsInTransaction(transactions, c)
             THEN h'[c].queue = transactions[c].Commands
             ELSE h'[c] = H0 /\ DB' = DB /\ sent' = sent

C13_DiscardDropsQueue ==
  /\ [](\A c \in Clients : c \notin DOMAIN transactions /\ h[c].mode # "exec" => h[c].queue = <<>>)
  /\ [][C13_Step]_vars

\* C13 witness: DISCARD arrived with SET k 1 queued and was answered +OK; the
\* connection is in no transaction, the key was not written and the offset
\* is 0.
C13_Witness ==
  /\ obs["c1"].cmd = <<"DISCARD">>
  /\ obs["c1"].queued = <<[Command |-> "SET", Args |-> <<"k", "1">>]>>
  /\ out["c1"] = <<Bytes(FormatSimpleString("OK"))>>
  /\ h["c1"].pc = "idle"
  /\ ~IsInTransaction(transactions, "c1")
  /\ DB[Primary] = EmptyDB
  /\ ReplicationOffset[Primary] = 0

\* C14: MULTI inside a transaction is answered "MULTI calls can not be
\* nested", EXEC and DISCARD outside a transaction are answered "ERR EXEC
\* without MULTI" and "ERR DISCARD without MULTI"; the transactions, queues
\* included, and the keyspace are left as they were.
C14_Step ==
  \A c \in Clients :
    LET cmd == ToUpper(obs'[c].cmd[1])
        Refused(msg) ==
          /\ out'[c] = <<Bytes(FormatError(msg))>>
          /\ transactions' = transactions
          /\ DB' = DB
          /\ h'[c] = H0
    IN
    Dispatched(c) =>
      /\ (cmd = "MULTI" /\ IsInTransaction(transactions, c)) =>
           Refused("MULTI calls can not be nested")
      /\ (cmd = "EXEC" /\ ~IsInTransaction(transactions, c)) =>
           Refused("ERR EXEC without MULTI")
      /\ (cmd = "DISCARD" /\ ~IsInTransaction(transactions, c)) =>
           Refused("ERR DISCARD without MULTI")

C14_MisuseRefused == [][C14_Step]_vars

\* C14 witness: a MULTI arrived with SET k 1 queued and was refused; the
\* connection is still in the transaction and the queue is the one it had.
C14_Witness ==
  /\ obs["c1"].cmd = <<"MULTI">>
  /\ obs["c1"].queued = <<[Command |-> "SET", Args |-> <<"k", "1">>]>>
  /\ out["c1"] = <<Bytes("-MULTI calls can not be nested\r\n")>>
  /\ IsInTransaction(transactions, "c1")
  /\ transactions["c1"].Commands = obs["c1"].queued
  /\ DB[Primary] = EmptyDB

\* C15: on a replica a write command queued in a transaction gets the
\* READONLY error in its slot of the reply of EXEC and leaves the replica's
\* keyspace as it is.
C15_Step ==
  \A d \in ReplicaClients :
    (/\ h[d].mode = "exec"
     /\ Len(h'[d].results) = Len(h[d].results) + 1
     /\ \/ h[d].pc = "incr_store"
        \/ /\ h[d].pc = "exec"
           /\ ToUpper(Head(h[d].queue).Command) \in WriteCommands)
    => /\ Last(h'[d].results) =
            FormatError("READONLY You can't write against a read only replica.")
       /\ DB' = DB

C15_QueuedWriteRefusedOnReplica == [][C15_Step]_vars

\* The IDs of the entries of a stream, in the order of insertion.
EntryIDs(v) == [i \in DOMAIN v.Entries |-> v.Entries[i].ID]

\* id1 is greater than id2 in the order of (ms, seq).
IDGreater(id1, id2) ==
  LET a == SplitID(id1)
      b == SplitID(id2) IN
  a[1] > b[1] \/ (a[1] = b[1] /\ a[2] > b[2])

StrictlyIncreasing(ids) ==
  \A i, j \in DOMAIN ids : i < j => IDGreater(ids[j], ids[i])

\* The stream the keyspace of the primary holds under key, the empty stream
\* when there is none.
StreamAt(db, key) == IF db[key].kind = "stream" THEN StreamObj(db[key]) ELSE EmptyStream

\* C16: in every stream the IDs of the entries are strictly increasing in the
\* order of insertion, last_id is the ID of the last entry, 0-0 when there is
\* none, and a step that changes last_id makes it greater.
C16_StreamOrdered ==
  /\ [](\A key \in Keys :
          LET v == StreamAt(DB[Primary], key) IN
          /\ StrictlyIncreasing(EntryIDs(v))
          /\ v.LastID = IF v.Entries = <<>> THEN "0-0" ELSE Last(EntryIDs(v)))
  /\ [][\A key \in Keys :
          LET v == StreamAt(DB[Primary], key)
              w == StreamAt(DB'[Primary], key) IN
          w.LastID # v.LastID => IDGreater(w.LastID, v.LastID)]_vars

\* The handler of c runs the critical section of StreamAdd in this step.
Appends(c) == h[c].pc = "xadd_add" /\ h'[c].pc = "idle"

\* C17: XADD with the ID * at clock now on a stream whose last ID is
\* last_ms-last_seq replies now-0 when now > last_ms, now-(last_seq+1) when
\* now = last_ms and last_ms-(last_seq+1) when now < last_ms; the reply is
\* greater than the last ID.
C17_Step ==
  \A c \in Clients :
    (Appends(c) /\ h[c].frame[2] = "*") =>
      LET last == SplitID(HeldStream(c).LastID)
          id == IF now > last[1] THEN FormatID(now, 0)
                ELSE IF now = last[1] THEN FormatID(now, last[2] + 1)
                ELSE FormatID(last[1], last[2] + 1) IN
      /\ out'[c] = <<Bytes(FormatBulkString(id))>>
      /\ IDGreater(id, HeldStream(c).LastID)

C17_StarID == [][C17_Step]_vars

\* C18: XADD with the ID <ms>-* replies 0-1 on an empty stream when ms = 0,
\* <ms>-0 on an empty stream when ms > 0, <ms>-0 when ms > last_ms,
\* <ms>-(last_seq+1) when ms = last_ms, and the error "equal or smaller than
\* the target stream top item" when ms < last_ms; an ID that is replied is the
\* ID of the entry appended to the stream.
C18_Step ==
  \A c \in Clients :
    (Appends(c) /\ IsMsStar(h[c].frame[2])) =>
      LET stream == HeldStream(c)
          key == h[c].frame[1]
          ms == MsOfMsStar(h[c].frame[2])
          last == SplitID(stream.LastID)
          empty == stream.Entries = <<>>
          Assigned(id) ==
            /\ out'[c] = <<Bytes(FormatBulkString(id))>>
            /\ Holds(c, Primary, key) =>
                 /\ EntryIDs(StreamAt(DB'[Primary], key)) = Append(EntryIDs(stream), id)
                 /\ StreamAt(DB'[Primary], key).LastID = id
      IN
      IF empty /\ ms = 0 THEN Assigned("0-1")
      ELSE IF empty THEN Assigned(FormatID(ms, 0))
      ELSE IF ms > last[1] THEN Assigned(FormatID(ms, 0))
      ELSE IF ms = last[1] THEN Assigned(FormatID(ms, last[2] + 1))
      ELSE /\ out'[c] = <<Bytes(FormatError(ErrTopItem))>>
           /\ DB' = DB

C18_MsStarID == [][C18_Step]_vars

\* C18 witness: 0-*, 1-* and 1-* were answered 0-1, 1-0 and 1-1 and the
\* stream holds these entries in this order.
C18_Witness ==
  /\ EntryIDs(StreamAt(DB[Primary], "s")) = <<"0-1", "1-0", "1-1">>
  /\ \E c \in Clients :
       /\ obs[c].cmd = <<"XADD", "s", "1-*", "f", "v">>
       /\ out[c] = <<Bytes(FormatBulkString("1-1"))>>
       /\ h[c].pc = "idle"

\* The replies of an XADD that failed.
XAddErrors ==
  {FormatError(ErrZeroID), FormatError(ErrTopItem), FormatError("ERR Invalid stream ID format"),
   FormatError("ERR wrong number of arguments for XADD"),
   FormatError("ERR wrong number of arguments for 'XADD'")}

\* C19: XADD with the explicit ID 0-0 is answered "must be greater than 0-0"
\* and with an explicit ID that is not greater than last_id "equal or smaller
\* than the target stream top item"; an XADD that fails leaves the keyspace
\* as it was: when the first command a server gets is an XADD that fails, no
\* key exists afterwards.
C19_FailedXAddNoEffect ==
  \A c \in Clients :
    (/\ h[c].pc = "idle"
     /\ obs[c].n = 1
     /\ \A c2 \in Clients \ {c} : obs[c2].n = 0
     /\ obs[c].cmd[1] = "XADD")
    => /\ obs[c].cmd[3] = "0-0" => out[c] = <<Bytes(FormatError(ErrZeroID))>>
       /\ out[c][1].s \in XAddErrors => DB[Primary] = EmptyDB

\* C20: when every connection has sent one XADD to the same key and got its
\* reply, each ID that was replied is the ID of an entry of the stream, the
\* IDs replied are pairwise distinct and the entries are stored in strictly
\* increasing order of ID.
C20_ConcurrentAppends ==
  LET v == StreamAt(DB[Primary], "s")
      Replied(c, id) ==
        /\ obs[c].n = 1
        /\ obs[c].cmd[1] = "XADD"
        /\ IsPairID(id)
        /\ out[c] = <<Bytes(FormatBulkString(id))>>
  IN
  (\A c \in Clients : h[c].pc = "idle" /\ obs[c].n <= 1) =>
    /\ \A c \in Clients : \A id \in Range(IDTable) :
         Replied(c, id) => id \in Range(EntryIDs(v))
    /\ \A c, c2 \in Clients : \A id \in Range(IDTable) :
         (c # c2 /\ Replied(c, id)) => ~Replied(c2, id)
    /\ StrictlyIncreasing(EntryIDs(v))

\* The entries of a stream whose IDs lie between start and end in the order
\* of (ms, seq), both ends included, in the order of insertion; - stands for
\* the least ID and + for the greatest.
Between(entries, start, end) ==
  SelectSeq(entries, LAMBDA e :
    /\ (start = "-" \/ ~IDGreater(start, e.ID))
    /\ (end = "+" \/ ~IDGreater(e.ID, end)))

\* C21: XRANGE key start end replies exactly the entries of the stream with
\* start <= id <= end, in the order of insertion, where - is the least and +
\* the greatest ID; a key that holds nothing gives the empty array.
C21_Step ==
  \A c \in Clients :
    (Dispatched(c) /\ obs'[c].cmd[1] = "XRANGE")
    => LET args == obs'[c].cmd
           v == DB[Primary][args[2]] IN
       out'[c] = <<Bytes(formatStreamEntries(
                     IF v.kind = "none" THEN <<>>
                     ELSE Between(v.Entries, args[3], args[4])))>>

C21_RangeInclusive == [][C21_Step]_vars

\* The stream holds 0-1, 0-2 and 1-0 and XRANGE s 0-2 + was answered with the
\* entries 0-2 and 1-0.
C21_Witness ==
  /\ obs["c1"].cmd = <<"XRANGE", "s", "0-2", "+">>
  /\ DB[Primary]["s"].kind = "stream"
  /\ EntryIDs(DB[Primary]["s"]) = <<"0-1", "0-2", "1-0">>
  /\ out["c1"] = <<Bytes(formatStreamEntries(SubSeq(DB[Primary]["s"].Entries, 2, 3)))>>

\* The entries of a stream whose IDs are greater than id in the order of
\* (ms, seq), in the order of insertion.
After(entries, id) == SelectSeq(entries, LAMBDA e : IDGreater(e.ID, id))

\* The locals of the handler of c before the access of this step.
XReadLocals(c) ==
  IF Dispatched(c)
    THEN LET p == XReadParse(Tail(obs'[c].cmd)) IN
         [H0 EXCEPT !.pc = "xread_ids", !.streamKeys = p.streamKeys,
                    !.startIDs = p.startIDs, !.blockTimeout = p.blockTimeout, !.i = 1]
    ELSE h[c]

\* The step is an access of the handler of c to the keyspace on behalf of
\* XREAD.
XReadAccess(c) ==
  \/ /\ Dispatched(c)
     /\ obs'[c].cmd[1] = "XREAD"
     /\ XReadParse(Tail(obs'[c].cmd)).err = ""
  \/ /\ h[c].pc \in {"xread_ids", "xread_read"}
     /\ h'[c] # h[c]

\* The array of [key, entries] for the keys that have entries, in the order
\* of the request; null when there is none.
XReadReply(keys, found) ==
  LET inc == SelectSeq(keys, LAMBDA key : key \in DOMAIN found) IN
  IF inc = <<>> THEN "$-1\r\n"
  ELSE "*" \o ToString(Len(inc)) \o "\r\n"
         \o Concat([n \in DOMAIN inc |->
                      "*2\r\n" \o "$" \o ToString(Len(inc[n])) \o "\r\n" \o inc[n] \o "\r\n"
                        \o formatStreamEntries(found[inc[n]])])

\* C22: XREAD STREAMS k id replies exactly the entries of k whose ID is
\* greater than id; an id of $ is replaced by the last ID the stream has at
\* that moment, so that no entry the stream holds then is returned; a key
\* with no such entry is left out of the reply, and the reply is null when
\* every key is left out.
C22_Step ==
  \A c \in Clients :
    XReadAccess(c)
    => LET L == XReadLocals(c)
           j == IF L.pc = "xread_ids" THEN NextDollar(L.startIDs, L.i) ELSE 0
           n == IF L.pc = "xread_ids" THEN 1 ELSE L.i
           key == L.streamKeys[n]
           expect == After(StreamAt(DB[Primary], key).Entries, L.startIDs[n])
           found == IF expect = <<>> THEN L.found ELSE MapPut(L.found, key, expect)
       IN
       IF j # 0
         THEN LET v == StreamAt(DB[Primary], L.streamKeys[j]) IN
              /\ h'[c].startIDs[j] = v.LastID
              /\ \A e \in Range(v.Entries) : ~IDGreater(e.ID, h'[c].startIDs[j])
       ELSE IF n < Len(L.streamKeys) THEN h'[c].found = found
       ELSE L.blockTimeout = -1
            => out'[c] = <<Bytes(XReadReply(L.streamKeys, found))>>

C22_ReadAfter == [][C22_Step]_vars

\* The stream s holds 0-1 and 0-2, the key k holds nothing, and XREAD STREAMS
\* s k 0-1 0-0 was answered with the entry 0-2 of s alone.
C22_Witness ==
  /\ obs["c1"].cmd = <<"XREAD", "STREAMS", "s", "k", "0-1", "0-0">>
  /\ h["c1"].pc = "idle"
  /\ DB[Primary]["s"].kind = "stream"
  /\ EntryIDs(DB[Primary]["s"]) = <<"0-1", "0-2">>
  /\ out["c1"] = <<Bytes("*1\r\n*2\r\n$1\r\ns\r\n"
                          \o formatStreamEntries(SubSeq(DB[Primary]["s"].Entries, 2, 2)))>>

\* The handler of c is in a read with BLOCK, after the IDs were resolved.
Blocked(c) ==
  /\ h[c].blockTimeout # -1
  /\ h[c].pc \in {"xread_read", "xread_timeout", "xread_sleep"}

\* The entries of the keys of the blocked read of c whose ID is greater than
\* the ID the read gave for the key.
Matching(c) ==
  UNION {{e \in Range(StreamAt(DB[Primary], h[c].streamKeys[n]).Entries) :
            IDGreater(e.ID, h[c].startIDs[n])} : n \in DOMAIN h[c].streamKeys}

\* The blocked read of c ends in this step: with a reply, or without one.
Returns(c) == Blocked(c) /\ h'[c].pc = "idle"

\* C23: a read with BLOCK ms replies the entries with a greater ID as soon as
\* a key has one; it replies null only when ms have passed and no such entry
\* was appended before they had; with BLOCK 0 it never replies null; it
\* returns without a reply only when the connection is closed; and a blocked
\* reader whose keys have such an entry, or whose ms have passed, returns.
C23_Step ==
  \A c \in Clients :
    /\ (XReadAccess(c) /\ XReadLocals(c).blockTimeout # -1)
       => LET L == XReadLocals(c)
              n == IF L.pc = "xread_ids" THEN 1 ELSE L.i
              key == L.streamKeys[n]
              expect == After(StreamAt(DB[Primary], key).Entries, L.startIDs[n])
              found == IF expect = <<>> THEN L.found ELSE MapPut(L.found, key, expect)
          IN
          (/\ L.pc = "xread_ids" => NextDollar(L.startIDs, L.i) = 0
           /\ n = Len(L.streamKeys)
           /\ found # EmptyMap)
          => /\ out'[c] = <<Bytes(XReadReply(L.streamKeys, found))>>
             /\ h'[c].pc = "idle"
    /\ (Returns(c) /\ out'[c] = <<Bytes(NullBulk)>> /\ h[c].pc = "xread_timeout")
       => /\ h[c].blockTimeout > 0
          /\ now - h[c].startTime >= h[c].blockTimeout
          /\ \A e \in Matching(c) : e.Time - h[c].startTime >= h[c].blockTimeout
    /\ (Returns(c) /\ h[c].pc = "xread_sleep") => (c \in closed /\ out'[c] = out[c])

C23_BlockingRead ==
  /\ [][C23_Step]_vars
  /\ \A c \in Clients :
       /\ (Blocked(c) /\ Matching(c) # {}) ~> ~Blocked(c)
       /\ (Blocked(c) /\ h[c].blockTimeout > 0
             /\ now - h[c].startTime >= h[c].blockTimeout) ~> ~Blocked(c)

\* The handler of c writes key of the primary's keyspace in this step.
WritesKey(c, key) ==
  \/ /\ Dispatched(c)
     /\ obs'[c].cmd[1] = "SET"
     /\ Len(obs'[c].cmd) >= 3
     /\ obs'[c].cmd[2] = key
  \/ /\ h[c].pc \in {"incr_store", "xadd_store", "xadd_add"}
     /\ h[c].frame[1] = key
     /\ h'[c].pc # h[c].pc

\* C24: SET k v without PX makes k hold the string v without expiry,
\* whatever k held before; GET replies the value a key without expiry holds,
\* at any time, and the key holds it until a handler writes the key again.
C24_Step ==
  /\ \A c \in Clients :
       /\ (Dispatched(c) /\ obs'[c].cmd[1] = "SET" /\ Len(obs'[c].cmd) = 3)
          => DB'[Primary][obs'[c].cmd[2]] = KeyValue(obs'[c].cmd[3], -1, now)
       /\ (Dispatched(c) /\ obs'[c].cmd[1] = "GET")
          => LET v == DB[Primary][obs'[c].cmd[2]] IN
             (v.kind = "kv" /\ v.Px = -1)
             => out'[c] = <<Bytes(FormatSimpleString(v.Val))>>
  /\ \A key \in Keys :
       DB'[Primary][key] # DB[Primary][key] => \E c \in Clients : WritesKey(c, key)

C24_SetOverwrites == [][C24_Step]_vars

\* The second client's XADD made k a stream, the first client's SET k v
\* replaced it, and its GET k was answered with v.
C24_Witness ==
  /\ obs["c2"].n = 1
  /\ out["c2"] = <<Bytes(FormatBulkString("1-1"))>>
  /\ obs["c1"].n = 2
  /\ obs["c1"].cmd = <<"GET", "k">>
  /\ out["c1"] = <<Bytes(FormatSimpleString("v"))>>
  /\ DB[Primary]["k"] = KeyValue("v", -1, DB[Primary]["k"].T)

\* C25: SET k v PX t at time set_time makes k hold v with set_time and t;
\* GET k replies v at a time before set_time + t and null at set_time + t and
\* at any later time.
C25_Step ==
  \A c \in Clients :
    /\ (Dispatched(c) /\ obs'[c].cmd[1] = "SET" /\ Len(obs'[c].cmd) = 5)
       => DB'[Primary][obs'[c].cmd[2]] =
            KeyValue(obs'[c].cmd[3], Atoi(obs'[c].cmd[5]), now)
    /\ (Dispatched(c) /\ obs'[c].cmd[1] = "GET")
       => LET v == DB[Primary][obs'[c].cmd[2]] IN
          (v.kind = "kv" /\ v.Px # -1)
          => out'[c] = <<Bytes(IF now < v.T + v.Px THEN FormatSimpleString(v.Val)
                               ELSE NullBulk)>>

C25_ExpiresAtDeadline == [][C25_Step]_vars

\* C26: INCR is atomic per key: when the INCR commands of several
\* connections on a key that held nothing have all been answered, the key
\* holds their number, and no two of them were answered with the same
\* integer.
C26_IncrAtomic ==
  \A key \in Keys :
    (/\ \A c \in Clients : h[c].pc = "idle" /\ obs[c].n = 1
     /\ \A c \in Clients : obs[c].cmd = <<"INCR", key>>)
    => /\ DB[Primary][key].kind = "kv"
       /\ DB[Primary][key].Val = ToString(Cardinality(Clients))
       /\ \A c1, c2 \in Clients : c1 # c2 => out[c1] # out[c2]

\* C27: with a single writer, INCR k on a key that holds nothing or has
\* expired stores 1 without expiry, on a key that holds the integer v0 it
\* stores v0 + 1, and it replies the value it stored; on a string that is no
\* integer it replies the error and leaves the key as it is.
C27_Step ==
  LET c == "c1" IN
  /\ (Dispatched(c) /\ obs'[c].cmd[1] = "INCR")
     => LET v == DB[Primary][obs'[c].cmd[2]] IN
        IF v.kind = "none" \/ (v.kind = "kv" /\ v.Px # -1 /\ now > v.T + v.Px)
          THEN /\ h'[c].pc = "incr_store"
               /\ h'[c].data.Val = "1"
               /\ h'[c].data.Px = -1
        ELSE IF v.kind = "kv" /\ AtoiOk(v.Val)
          THEN /\ h'[c].pc = "incr_store"
               /\ h'[c].data.Val = ToString(Atoi(v.Val) + 1)
        ELSE /\ out'[c] = <<Bytes(FormatError("ERR value is not an integer or out of range"))>>
             /\ DB' = DB
  /\ (h[c].pc = "incr_store" /\ h'[c].pc = "idle")
     => /\ DB'[Primary][h[c].frame[1]].kind = "kv"
        /\ DB'[Primary][h[c].frame[1]].Val = h[c].data.Val
        /\ DB'[Primary][h[c].frame[1]].Px = h[c].data.Px
        /\ out'[c] = <<Bytes(":" \o h[c].data.Val \o "\r\n")>>

C27_IncrSequence == [][C27_Step]_vars

\* C28: when the handler of a closed connection has ended, the server holds
\* no transaction of the connection, and the connection is neither in the
\* list of replicas nor in the map of their offsets.
C28_ClosedConnectionForgotten ==
  \A c \in Clients :
    h[c].pc = "gone"
    => /\ c \notin DOMAIN transactions
       /\ c \notin Range(ReplicaConn[ServerOf(c)])
       /\ c \notin DOMAIN ReplicaOffsets[ServerOf(c)]

\* What SendHandshake expects to read in each of its four waits.
Expected(pc, m) ==
  /\ m.t = "bytes"
  /\ CASE pc = "wait_pong" -> m.s = FormatSimpleString("PONG")
       [] pc \in {"wait_ok1", "wait_ok2"} -> m.s = FormatSimpleString("OK")
       [] OTHER -> \E n \in 0..AtoiMax :
                     m.s = FormatSimpleString("FULLRESYNC " \o ReplID \o " " \o ToString(n))

\* The step of the handshake that follows the expected reply, and the
\* command it writes.
AfterReply(r, pc) ==
  CASE pc = "wait_pong" -> [pc |-> "wait_ok1", cmd |-> <<<<"REPLCONF", "listening-port", Port(r)>>>>]
    [] pc = "wait_ok1" -> [pc |-> "wait_ok2", cmd |-> <<<<"REPLCONF", "capa", "psync2">>>>]
    [] pc = "wait_ok2" -> [pc |-> "wait_fullresync", cmd |-> <<<<"PSYNC", "?", "-1">>>>]
    [] OTHER -> [pc |-> "ingest", cmd |-> <<>>]

HandshakeWaits == {"wait_pong", "wait_ok1", "wait_ok2", "wait_fullresync"}

\* C29: the replica writes PING, and in each of the four waits of the
\* handshake it goes on only with the expected reply: it writes the next
\* command (REPLCONF listening-port, REPLCONF capa psync2, PSYNC ? -1) or,
\* after the FULLRESYNC line, enters the ingestion loop with offset 0; with any
\* other reply the process ends and the ingestion loop is never entered.
C29_Step ==
  \A r \in {"R1", "R2"} :
    /\ (rpc[r] = "start" /\ rpc'[r] # "start")
       => /\ rpc'[r] = "wait_pong"
          /\ up'[r] = Append(up[r], <<"PING">>)
    /\ (rpc[r] \in HandshakeWaits /\ rpc'[r] # rpc[r])
       => IF Expected(rpc[r], Head(out[r]))
            THEN /\ rpc'[r] = AfterReply(r, rpc[r]).pc
                 /\ up'[r] = up[r] \o AfterReply(r, rpc[r]).cmd
                 /\ rpc'[r] = "ingest" => ReplicationOffset'[r] = 0
            ELSE /\ rpc'[r] = "fatal"
                 /\ up'[r] = up[r]
    /\ rpc[r] = "fatal" => rpc'[r] = "fatal"
    /\ (rpc'[r] = "ingest" /\ rpc[r] \notin {"ingest", "acked"}) => rpc[r] = "wait_fullresync"

C29_Handshake == [][C29_Step]_vars

Occurrences(seq, x) == Cardinality({i \in DOMAIN seq : seq[i] = x})

\* C30: a write of the fan-out that fails removes the replica from
\* ReplicaConn and from ReplicaOffsets in that step and writes nothing; the
\* loop goes on with the next replica of the snapshot, a write that does not
\* fail delivers the frame, and at the end of the fan-out the client is
\* answered +OK and every replica whose connection is not broken has been
\* written every frame of the client.
C30_Step ==
  \A c \in Clients :
    LET conn == h[c].snap[h[c].i]
        frame == h[c].frame IN
    /\ (h[c].pc = "repl_write" /\ h'[c] # h[c] /\ conn \in closed)
       => /\ conn \notin Range(ReplicaConn'[Primary])
          /\ conn \notin DOMAIN ReplicaOffsets'[Primary]
          /\ wlog' = wlog
          /\ DB' = DB
          /\ IF h[c].i < Len(h[c].snap)
               THEN h'[c] = [h[c] EXCEPT !.i = @ + 1]
               ELSE /\ h'[c].pc = "idle"
                    /\ out'[c] = ConnWrite(out, c, Bytes(FormatSimpleString("OK")))[c]
    /\ (h[c].pc = "repl_write" /\ h'[c] # h[c] /\ conn \notin closed)
       => /\ out'[conn] = Append(out[conn], Frame(frame))
          /\ ReplicaConn' = ReplicaConn
    /\ (h[c].pc \in {"repl_write", "repl_ack"} /\ h'[c].pc = "idle")
       => /\ out'[c] = ConnWrite(out, c, Bytes(FormatSimpleString("OK")))[c]
          /\ \A r \in Range(h[c].snap) \ closed :
               Occurrences(wlog'[r], frame) = Occurrences(sent', frame)

C30_FailedWriteDropsReplica == [][C30_Step]_vars

\* The first replica was dropped by a failed write of the only fan-out, the
\* second one was written the frame, the client was answered +OK.
C30_Witness ==
  /\ "R1" \in closed
  /\ h["R1"].pc = "idle"
  /\ "R1" \notin Range(ReplicaConn[Primary])
  /\ "R1" \notin DOMAIN ReplicaOffsets[Primary]
  /\ Len(sent) = 1
  /\ wlog["R1"] = <<>>
  /\ wlog["R2"] = sent
  /\ rlog["R2"] = sent
  /\ h["c1"].pc = "idle"
  /\ out["c1"] = <<Bytes(FormatSimpleString("OK"))>>
  /\ DB[Primary]["k"].Val = "1"

\* C31: when ParseRDB returned an error, no key is visible once the
\* listener is open: the keyspace of the primary is empty.
C31_FailedLoadLeavesNothing ==
  (boot.pc = "listening" /\ boot.err)
  => \A key \in Keys : ~GetKey(DB[Primary], key, now).ok

\* The records ParseRDB reads when nothing fails: those in front of the first
\* 0xFF.
RECURSIVE BeforeEnd(_)
BeforeEnd(recs) ==
  IF recs = <<>> \/ Head(recs).op = "FF" THEN <<>>
  ELSE <<Head(recs)>> \o BeforeEnd(Tail(recs))

\* C32: after a load without error, a key the file holds in one record, with
\* an absolute expiry E, is visible exactly while the clock is before E: it was
\* skipped when E <= now at the load, and it was stored with the TTL E - now
\* otherwise.
C32_AbsoluteExpiry ==
  LET recs == BeforeEnd(boot.file.recs) IN
  (boot.pc = "listening" /\ ~boot.err)
  => \A i \in DOMAIN recs :
       (/\ recs[i].op \in {"FD", "FC"}
        /\ \A j \in DOMAIN recs : recs[j].key = recs[i].key => j = i)
       => LET r == GetKey(DB[Primary], recs[i].key, now) IN
          /\ r.ok <=> now < ExpireTime(recs[i])
          /\ r.ok => r.val = recs[i].val

\* The bytes of the connection ReadArrayArguments has not consumed.
Unread == codec.buf \o codec.wire

\* C33: ReadArrayArguments returns, for the bytes EncodeArray made of an
\* argument list, true and the same list, and has consumed these bytes and no
\* more: the frame behind them is still unread, and the length of the encoding
\* of what was returned is the number of bytes consumed.
C33_RoundTrip ==
  /\ codec.pc # "false"
  /\ codec.pc = "true"
     => /\ codec.args = codec.input
        /\ Unread = EncodeFrames(codec.behind)
        /\ Len(EncodeArrayBytes(codec.args)) + Len(Unread)
             = Len(EncodeFrames(<<codec.input>> \o codec.behind))

ErrWrongType == "ERR WRONGTYPE Operation against a key holding the wrong kind of value"

\* C34: a key holds nothing, a string or a stream; XADD on a key that holds
\* a string is answered with the WRONGTYPE error and INCR on a key that holds
\* a stream with an error, and neither changes the keyspace.
C34_Step ==
  /\ \A key \in Keys : DB[Primary][key].kind \in {"none", "kv", "stream"}
  /\ \A c \in Clients :
       /\ (/\ Dispatched(c)
           /\ obs'[c].cmd[1] = "XADD"
           /\ DB[Primary][obs'[c].cmd[2]].kind = "kv"
           /\ ~Expired(DB[Primary][obs'[c].cmd[2]], now))
          => /\ out'[c] = <<Bytes(FormatError(ErrWrongType))>>
             /\ h'[c].pc = "idle"
             /\ DB' = DB
       /\ (/\ Dispatched(c)
           /\ obs'[c].cmd[1] = "INCR"
           /\ DB[Primary][obs'[c].cmd[2]].kind = "stream")
          => /\ out'[c] = <<Bytes(FormatError("ERR value is not an integer or out of range"))>>
             /\ h'[c].pc = "idle"
             /\ DB' = DB

C34_TypeChangingWritesFail == [][C34_Step]_vars

\* The first client's SET made k a string, the second client's XADD on k was
\* answered with the error, and k holds the string.
C34_Witness ==
  /\ obs["c1"].cmd = <<"SET", "k", "v">>
  /\ h["c1"].pc = "idle"
  /\ obs["c2"].n = 1
  /\ obs["c2"].cmd = <<"XADD", "k", "1-1", "f", "v">>
  /\ out["c2"] = <<Bytes(FormatError(ErrWrongType))>>
  /\ DB[Primary]["k"] = KeyValue("v", -1, DB[Primary]["k"].T)

\* C35: the step of the ingestion loop that consumes a frame with at least
\* one argument adds the length of the encoding of the frame to the offset of
\* the replica, whatever the command and the number of its arguments.
C35_Step ==
  \A r \in Replicas :
    (/\ rpc[r] \in {"ingest", "acked"}
     /\ out[r] # <<>>
     /\ out'[r] = Tail(out[r])
     /\ Head(out[r]).t = "frame"
     /\ Head(out[r]).args # <<>>)
    => ReplicationOffset'[r] = ReplicationOffset[r] + Len(EncodeArray(Head(out[r]).args))

C35_EveryFrameCounts == [][C35_Step]_vars

\* C36: when the handshake ends behind the snapshot, every frame the
\* primary has written behind the snapshot is still to be read by the
\* ingestion loop, and the loop takes the frames one by one from the front,
\* each once.
C36_Step ==
  \A r \in Replicas :
    /\ (/\ rpc[r] = "wait_fullresync"
        /\ rpc'[r] = "ingest"
        /\ Head(out[r]).t = "bytes"
        /\ out[r][2] = Rdb)
       => out'[r] = SubSeq(out[r], 3, Len(out[r]))
    /\ (rpc[r] \in {"ingest", "acked"} /\ out[r] # <<>> /\ rlog'[r] # rlog[r])
       => /\ out'[r] = Tail(out[r])
          /\ rlog'[r] = Append(rlog[r], Head(out[r]).args)

C36_NoFrameLost == [][C36_Step]_vars

\* C37: the ingestion loop stores the key of a frame SET k v PX t with the
\* value v, the expiry t and the time of the step; GET on the replica replies
\* the value of a key with an expiry before the expiry has elapsed and null
\* after it.
C37_Step ==
  /\ \A r \in Replicas :
       (/\ rpc[r] = "ingest"
        /\ out[r] # <<>>
        /\ out'[r] = Tail(out[r])
        /\ Len(Head(out[r]).args) = 5
        /\ Head(out[r]).args[1] = "SET"
        /\ Head(out[r]).args[4] = "PX")
       => LET args == Head(out[r]).args IN
          DB'[r][args[2]] = KeyValue(args[3], Atoi(args[5]), now)
  /\ \A d \in ReplicaClients :
       (Dispatched(d) /\ obs'[d].cmd[1] = "GET")
       => LET v == DB[ServerOf(d)][obs'[d].cmd[2]] IN
          (v.kind = "kv" /\ v.Px # -1)
          => /\ now < v.T + v.Px => out'[d] = <<Bytes(FormatSimpleString(v.Val))>>
             /\ now > v.T + v.Px => out'[d] = <<Bytes(NullBulk)>>

C37_ReplicaKeepsExpiry == [][C37_Step]_vars

\* The replica applied SET k w PX 2 and answered GET k with w; two
\* milliseconds later it has answered a second GET k with null.
C37_Witness ==
  /\ rlog["R1"] = <<<<"SET", "k", "w", "PX", "2">>>>
  /\ DB["R1"]["k"] = KeyValue("w", 2, 0)
  /\ now = 3
  /\ obs["d1"].n = 2
  /\ obs["d1"].cmd = <<"GET", "k">>
  /\ out["d1"] = <<Bytes(NullBulk)>>

\* A bound of XRANGE that is the ms part alone stands for <ms>-0.
BareTable == [ms \in 0..MaxIdNum |-> ToString(ms)]
Coerce(bound) ==
  IF \E ms \in DOMAIN BareTable : BareTable[ms] = bound
    THEN FormatID(CHOOSE ms \in DOMAIN BareTable : BareTable[ms] = bound, 0)
    ELSE bound

\* C38: XRANGE with a bound that is an ms part alone replies the entries it
\* replies for the bound <ms>-0: with start = <ms> the entries from <ms>-0 on,
\* with end = <ms> the entries up to <ms>-0.
C38_Step ==
  \A c \in Clients :
    (Dispatched(c) /\ obs'[c].cmd[1] = "XRANGE")
    => LET args == obs'[c].cmd
           v == DB[Primary][args[2]] IN
       out'[c] = <<Bytes(formatStreamEntries(
                     IF v.kind = "none" THEN <<>>
                     ELSE Between(v.Entries, Coerce(args[3]), Coerce(args[4]))))>>

C38_BareBound == [][C38_Step]_vars

\* C39: a REPLCONF ACK on a connection that is not in the list of replicas
\* changes nothing the primary keeps: no entry of ReplicaOffsets is made for
\* the connection and nothing is sent on the channel WAIT receives from, so
\* that the integer a WAIT replies is the one it replies without the ACK.
C39_Step ==
  \A c \in Clients :
    (/\ Dispatched(c)
     /\ Len(obs'[c].cmd) >= 2
     /\ obs'[c].cmd[1] = "REPLCONF"
     /\ ToUpper(obs'[c].cmd[2]) = "ACK"
     /\ c \notin Range(ReplicaConn[Primary]))
    => /\ c \notin DOMAIN ReplicaOffsets'[Primary]
       /\ ReplicaOffsets' = ReplicaOffsets
       /\ AckReceived' = AckReceived
       /\ UNCHANGED <<DB, ReplicationOffset, ReplicaConn>>

C39_ForeignAckIgnored == [][C39_Step]_vars

\* C40: the frame of a write command is written to the connection of a
\* replica only after the handler of PSYNC has written the FULLRESYNC line
\* and the snapshot to it.
C40_Step ==
  \A r \in Replicas :
    (/\ Len(out'[r]) = Len(out[r]) + 1
     /\ out'[r][Len(out'[r])].t = "frame"
     /\ out'[r][Len(out'[r])].args[1] \in WriteCommands)
    => h[r].pc # "fullresync"

C40_SnapshotFirst == [][C40_Step]_vars

====
